---- MODULE Spec2Model ----
(***************************************************************************)
(* A model of the ATECC device context of rust-cryptoauthlib               *)
(* (cryptoauthlib/src/hw_impl/mod.rs): the resource manager, the device    *)
(* life cycle (new / release), the session mutex, the access-key store and *)
(* the per-operation policy checks that precede every hardware primitive.  *)
(*                                                                         *)
(* Every method of AteccDevice is an operator that maps the arguments, the *)
(* captured device fields and the outcomes of the effects the call has     *)
(* performed so far to the call's next effect or to its return value.  An  *)
(* effect is a step that touches state shared between threads: a call on   *)
(* the resource manager, a hardware primitive executed under api_mutex, an *)
(* access to the key store.  Threads interleave at effects.                *)
(***************************************************************************)
EXTENDS Integers, Sequences, FiniteSets, TLC

VARIABLES
    ref_counter,   \* AteccResourceManager.ref_counter
    dev,           \* the AteccDevice objects, by identity
    api_mutex,     \* AteccDevice.api_mutex: 0 = free, else the holding thread
    access_keys,   \* AteccDevice.access_keys: slot -> key, per device
    hw_session,    \* the session of the hardware library (atcab_init/atcab_release)
    chip,          \* the chip on the bus: the image of its configuration zone
    data_zone,     \* the chip on the bus: what its data slots hold
    th,            \* per thread: the running call, the outcomes so far, the last result
    calls,         \* number of calls started
    rm_last,       \* history: the last resource-manager call
    released,      \* history: release() has returned success on the device
    frees,         \* history: how often the device's interface configuration was freed
    teardowns,     \* history: atcab_release executions issued by the device's release()
    opened,        \* history: atcab_init succeeded for the device
    decoder        \* a configuration buffer and what the decoder made of it

vars == <<ref_counter, dev, api_mutex, access_keys, hw_session, chip, data_zone, th,
          calls, rm_last, released, frees, teardowns, opened, decoder>>

----------------------------------------------------------------------------
\* Bounds of the model.

MaxThreads == 2
MaxCtx == 3
MaxCalls == 5
MaxOpsCalls == 2
MaxSharedCalls == 3
MaxDecodes == 2

Threads == 1..MaxThreads
Ctx == 1..MaxCtx

----------------------------------------------------------------------------
\* Program constants.

ATCA_ATECC_SLOTS_COUNT == 16
ATCA_ATECC_MIN_SLOT_IDX_FOR_PUB_KEY == 8
ATCA_ATECC_TEMPKEY_KEYID == 65535
ATCA_ATECC_CONFIG_BUFFER_SIZE == 128
ATCA_ATSHA_CONFIG_BUFFER_SIZE == 88
ATCA_KEY_SIZE == 32
ATCA_AES_KEY_SIZE == 16
ATCA_BLOCK_SIZE == 32
ATCA_NONCE_SIZE == 32
ATCA_NONCE_NUMIN_SIZE == 20
ATCA_RANDOM_BUFFER_SIZE == 32
ATCA_SHA2_256_DIGEST_SIZE == 32
ATCA_SIG_SIZE == 64
ATCA_ATECC_PUB_KEY_SIZE == 64
ATCA_ATECC_PRIV_KEY_SIZE == 32
U16_MAX == 65535

AtcaSuccess == "AtcaSuccess"
AtcaNotLocked == "AtcaNotLocked"
AtcaBadParam == "AtcaBadParam"
AtcaInvalidSize == "AtcaInvalidSize"
AtcaInvalidId == "AtcaInvalidId"
AtcaUnimplemented == "AtcaUnimplemented"
AtcaAllocFailure == "AtcaAllocFailure"
AtcaFuncFail == "AtcaFuncFail"
AtcaCommFail == "AtcaCommFail"
\* A Rust panic (index out of range): the call aborts instead of returning.
Panic == "panic"
\* The error string new() returns when family and AES capability disagree.
ConfigMismatch == "ConfigMismatch"

\* The statuses this layer substitutes before attempting a hardware call.
LayerErrors == {AtcaNotLocked, AtcaBadParam, AtcaInvalidSize, AtcaInvalidId, AtcaUnimplemented}

\* Statuses a hardware primitive returns.
HwFailures == {AtcaCommFail}

----------------------------------------------------------------------------
\* Bit helpers and the configuration-zone decoder.

Pow2(n) == IF n = 0 THEN 1 ELSE IF n = 1 THEN 2 ELSE IF n = 2 THEN 4 ELSE IF n = 3 THEN 8
           ELSE IF n = 4 THEN 16 ELSE IF n = 5 THEN 32 ELSE IF n = 6 THEN 64 ELSE 128

Shr(byte, n) == byte \div Pow2(n)

atcab_get_bit_value(byte, bit_pos) ==
    IF bit_pos < 8 THEN (Shr(byte, bit_pos) % 2) # 0 ELSE FALSE

\* A write_config decoding that looks at the low three bits only.
atcab_get_write_config_three_bits(data) ==
    IF data % 8 = 0 THEN "Always"
    ELSE IF data % 8 = 1 THEN "PubInvalid"
    ELSE IF data % 8 \in 2..3 THEN "Never"
    ELSE "Encrypt"

atcab_get_write_config(data) ==
    LET n == data % 16 IN
    IF n = 0 THEN "Always"
    ELSE IF n = 1 THEN "PubInvalid"
    ELSE IF n \in 2..3 THEN "Never"
    ELSE IF n \in 4..7 THEN "Encrypt"
    ELSE IF n \in 8..11 THEN "Never"
    ELSE "Encrypt"

atcab_get_key_type(data) ==
    LET n == data % 8 IN
    IF n = 4 THEN "P256EccKey"
    ELSE IF n = 6 THEN "Aes"
    ELSE IF n = 7 THEN "ShaOrText"
    ELSE "Rfu"

\* A decoder that reads the lock bit of every slot from byte 88.
DecodeSlot_one_lock_byte(config_data, idx) ==
    LET slot_cfg_pos == 20 + idx * 2
        key_cfg_pos == 96 + idx * 2
        sc0 == config_data[slot_cfg_pos]
        sc1 == config_data[slot_cfg_pos + 1]
        kc0 == config_data[key_cfg_pos]
        kc1 == config_data[key_cfg_pos + 1]
    IN  [id |-> idx,
         is_locked |-> (Shr(config_data[88], idx % 8) % 2) # 1,
         config |->
           [write_config |-> atcab_get_write_config(Shr(sc1, 4)),
            key_type |-> atcab_get_key_type(Shr(kc0, 2)),
            read_key |-> [encrypt_read |-> atcab_get_bit_value(sc0, 6),
                          slot_number |-> sc0 % 16],
            ecc_key_attr |-> [is_private |-> atcab_get_bit_value(kc0, 0),
                              ext_sign |-> atcab_get_bit_value(sc0, 0),
                              int_sign |-> atcab_get_bit_value(sc0, 1),
                              ecdh_operation |-> atcab_get_bit_value(sc0, 2),
                              ecdh_secret_out |-> atcab_get_bit_value(sc0, 3)],
            x509id |-> Shr(kc1, 6) % 4,
            auth_key |-> kc1 % 16,
            write_key |-> sc1 % 16,
            is_secret |-> atcab_get_bit_value(sc0, 7),
            limited_use |-> atcab_get_bit_value(sc0, 5),
            no_mac |-> atcab_get_bit_value(sc0, 4),
            persistent_disable |-> atcab_get_bit_value(kc1, 4),
            req_auth |-> atcab_get_bit_value(kc0, 7),
            req_random |-> atcab_get_bit_value(kc0, 6),
            lockable |-> atcab_get_bit_value(kc0, 5),
            pub_info |-> atcab_get_bit_value(kc0, 1)]]

\* A decoder that takes the key type from bits 0..2 of the key-config byte.
DecodeSlot_key_type_unshifted(config_data, idx) ==
    LET slot_cfg_pos == 20 + idx * 2
        key_cfg_pos == 96 + idx * 2
        sc0 == config_data[slot_cfg_pos]
        sc1 == config_data[slot_cfg_pos + 1]
        kc0 == config_data[key_cfg_pos]
        kc1 == config_data[key_cfg_pos + 1]
    IN  [id |-> idx,
         is_locked |-> (Shr(config_data[88 + (idx \div 8)], idx % 8) % 2) # 1,
         config |->
           [write_config |-> atcab_get_write_config(Shr(sc1, 4)),
            key_type |-> atcab_get_key_type(kc0),
            read_key |-> [encrypt_read |-> atcab_get_bit_value(sc0, 6),
                          slot_number |-> sc0 % 16],
            ecc_key_attr |-> [is_private |-> atcab_get_bit_value(kc0, 0),
                              ext_sign |-> atcab_get_bit_value(sc0, 0),
                              int_sign |-> atcab_get_bit_value(sc0, 1),
                              ecdh_operation |-> atcab_get_bit_value(sc0, 2),
                              ecdh_secret_out |-> atcab_get_bit_value(sc0, 3)],
            x509id |-> Shr(kc1, 6) % 4,
            auth_key |-> kc1 % 16,
            write_key |-> sc1 % 16,
            is_secret |-> atcab_get_bit_value(sc0, 7),
            limited_use |-> atcab_get_bit_value(sc0, 5),
            no_mac |-> atcab_get_bit_value(sc0, 4),
            persistent_disable |-> atcab_get_bit_value(kc1, 4),
            req_auth |-> atcab_get_bit_value(kc0, 7),
            req_random |-> atcab_get_bit_value(kc0, 6),
            lockable |-> atcab_get_bit_value(kc0, 5),
            pub_info |-> atcab_get_bit_value(kc0, 1)]]

\* config_data is a function 0..len-1 -> byte; the result is the 16 descriptors,
\* slot idx at sequence index idx+1.
DecodeSlot(config_data, idx) ==
    LET slot_cfg_pos == 20 + idx * 2
        key_cfg_pos == 96 + idx * 2
        sc0 == config_data[slot_cfg_pos]
        sc1 == config_data[slot_cfg_pos + 1]
        kc0 == config_data[key_cfg_pos]
        kc1 == config_data[key_cfg_pos + 1]
    IN  [id |-> idx,
         is_locked |-> (Shr(config_data[88 + (idx \div 8)], idx % 8) % 2) # 1,
         config |->
           [write_config |-> atcab_get_write_config(Shr(sc1, 4)),
            key_type |-> atcab_get_key_type(Shr(kc0, 2)),
            read_key |-> [encrypt_read |-> atcab_get_bit_value(sc0, 6),
                          slot_number |-> sc0 % 16],
            ecc_key_attr |-> [is_private |-> atcab_get_bit_value(kc0, 0),
                              ext_sign |-> atcab_get_bit_value(sc0, 0),
                              int_sign |-> atcab_get_bit_value(sc0, 1),
                              ecdh_operation |-> atcab_get_bit_value(sc0, 2),
                              ecdh_secret_out |-> atcab_get_bit_value(sc0, 3)],
            x509id |-> Shr(kc1, 6) % 4,
            auth_key |-> kc1 % 16,
            write_key |-> sc1 % 16,
            is_secret |-> atcab_get_bit_value(sc0, 7),
            limited_use |-> atcab_get_bit_value(sc0, 5),
            no_mac |-> atcab_get_bit_value(sc0, 4),
            persistent_disable |-> atcab_get_bit_value(kc1, 4),
            req_auth |-> atcab_get_bit_value(kc0, 7),
            req_random |-> atcab_get_bit_value(kc0, 6),
            lockable |-> atcab_get_bit_value(kc0, 5),
            pub_info |-> atcab_get_bit_value(kc0, 1)]]

atcab_get_config_from_config_zone(config_data, atca_slots) ==
    atca_slots \o [i \in 1..ATCA_ATECC_SLOTS_COUNT |-> DecodeSlot(config_data, i - 1)]

----------------------------------------------------------------------------
\* The chip on the bus.  One configuration table with slots of every kind the
\* policy engine distinguishes; the AES capability bit and the two zone-lock
\* bytes are chosen per run.

\* <<slot-config byte 0, slot-config byte 1, key-config byte 0, key-config byte 1>>
SlotTable ==
    << <<135, 66, 19, 0>>,   \*  0: P256 private, secret, pub_info, write Encrypt (key 2)
       <<128, 128, 24, 0>>,  \*  1: AES, secret, write Never
       <<0, 0, 24, 0>>,      \*  2: AES, write Always, plain read
       <<196, 68, 24, 0>>,   \*  3: AES, secret, encrypted read (key 4), write Encrypt (key 4)
       <<128, 128, 28, 0>>,  \*  4: ShaOrText, secret, write Never
       <<0, 0, 16, 0>>,      \*  5: P256 public, write Always, below the public-key window
       <<196, 32, 16, 0>>,   \*  6: P256, secret, encrypted read, not private
       <<0, 0, 0, 0>>,       \*  7: reserved key type
       <<0, 0, 18, 0>>,      \*  8: P256 public, write Always
       <<0, 0, 24, 0>>,      \*  9: AES, write Always
       <<0, 16, 24, 0>>,     \* 10: AES, write PubInvalid
       <<128, 66, 17, 0>>,   \* 11: P256 private, secret, no pub_info, write Encrypt (key 2)
       <<196, 32, 16, 0>>,   \* 12: P256, secret, encrypted read, not private
       <<0, 32, 16, 0>>,     \* 13: P256, not secret, write Never
       <<196, 68, 24, 0>>,   \* 14: AES, secret, encrypted read (key 4), write Encrypt (key 4)
       <<135, 66, 19, 0>> >> \* 15: P256 private, secret, pub_info, write Encrypt (key 2)

\* A configuration image names the bytes that vary between the chips of the
\* model; Bytes(image) is the configuration zone, byte by byte.
ChipImage(aes_bit, config_locked, data_locked) ==
    [aes_bit |-> aes_bit, config_locked |-> config_locked, data_locked |-> data_locked]

NoImage == [aes_bit |-> 0, config_locked |-> FALSE, data_locked |-> FALSE, none |-> TRUE]

Bytes(image) ==
    [i \in 0..(ATCA_ATECC_CONFIG_BUFFER_SIZE - 1) |->
        IF i = 13 THEN image.aes_bit
        ELSE IF i = 86 THEN (IF image.data_locked THEN 0 ELSE 85)
        ELSE IF i = 87 THEN (IF image.config_locked THEN 0 ELSE 85)
        ELSE IF i = 88 THEN 191
        ELSE IF i = 89 THEN 127
        ELSE IF i = 90 THEN 2
        ELSE IF i = 91 THEN 69
        ELSE IF i \in 20..51 THEN SlotTable[((i - 20) \div 2) + 1][((i - 20) % 2) + 1]
        ELSE IF i \in 96..127 THEN SlotTable[((i - 96) \div 2) + 1][((i - 96) % 2) + 3]
        ELSE 0]

SerialNumber == <<1, 35, 0, 0, 0, 0, 0, 0, 238>>

DeviceTypes == {"ATECC608A", "ATECC508A"}

NoSession == [open |-> FALSE, devtype |-> "AtcaDevUnknown", owner |-> 0]

\* The statuses a hardware primitive can return in the given session state.
HwStatuses(p, sess) ==
    IF p \in {"atcab_get_device_type", "atcab_release"} THEN {AtcaSuccess}
    ELSE IF p = "atcab_init" \/ sess.open THEN {AtcaSuccess} \cup HwFailures
    ELSE HwFailures

\* The data a hardware primitive returns.
HwValue(p, a, st, sess, ch) ==
    IF p = "atcab_get_device_type" THEN sess.devtype
    ELSE IF p = "atcab_read_serial_number" THEN SerialNumber
    ELSE IF p = "atcab_read_config_zone" THEN [len |-> a, image |-> ch]
    ELSE IF p = "atcab_is_locked" THEN
        (st = AtcaSuccess
         /\ (IF a = "ATCA_LOCK_ZONE_CONFIG" THEN Bytes(ch)[87] # 85 ELSE Bytes(ch)[86] # 85))
    ELSE IF p = "atcab_read_zone" /\ a.zone = "ATCA_ZONE_CONFIG" THEN
        [i \in 1..a.len |-> IF st = AtcaSuccess THEN Bytes(ch)[4 * a.offset + i - 1] ELSE 0]
    ELSE IF p \in {"atcab_read_zone", "atcab_read_enc"} /\ st = AtcaSuccess
         THEN data_zone[a.slot]
    ELSE IF p \in {"atcab_verify_stored", "atcab_verify_extern"}
         THEN st = AtcaSuccess /\ a.genuine
    ELSE 0

\* The data slots as the chip leaves the factory.
FactoryData == [s \in 0..(ATCA_ATECC_SLOTS_COUNT - 1) |-> "factory"]

\* The data slots after a hardware primitive has executed: a successful write
\* of a block stores the block's content.
HwData(p, a, st, data) ==
    IF p \in {"atcab_write_zone", "atcab_write_enc"} /\ st = AtcaSuccess
    THEN [data EXCEPT ![a.slot] = a.data.val]
    ELSE data

\* The session after a hardware primitive has executed for device c.
HwSession(p, a, st, c, sess) ==
    IF p = "atcab_init" THEN
        (IF st = AtcaSuccess THEN [open |-> TRUE, devtype |-> a.devtype, owner |-> c]
         ELSE NoSession)
    ELSE IF p = "atcab_release" THEN NoSession
    ELSE sess

----------------------------------------------------------------------------
\* Calls as programs over the outcomes of their effects.

Eff(e) == [k |-> "eff", e |-> e]
Ret(st, v, rest) == [k |-> "ret", st |-> st, v |-> v, rest |-> rest]

\* The value bound by a step [x \in {value} |-> rest of the code]
Arg(f) == CHOOSE x \in DOMAIN f : TRUE

\* let x = value; rest of the code.  A call that still waits for an effect
\* (x.k = "eff") is what its caller waits for.
Let(f) == CHOOSE v \in UNION {{g[Arg(g)]} : g \in {f}} : TRUE

\* The effect e: requested when its outcome is not in the trace yet.
Perform(e, tr) ==
    IF tr = <<>> THEN Eff(e) ELSE Ret(Head(tr).st, Head(tr).v, Tail(tr))

\* unsafe { let _guard = self.api_mutex.lock(); cryptoauthlib_sys::p(a) }
api(p, a, tr) == Perform([k |-> "hw", p |-> p, a |-> a], tr)

\* ATECC_RESOURCE_MANAGER.lock().unwrap().acquire() / .release()
resource_manager(p, tr) == Perform([k |-> "rm", p |-> p, a |-> 0], tr)

\* Box::from_raw(iface_cfg_raw_ptr) outside release()
free_box(tr) == Perform([k |-> "mem", p |-> "free_box", a |-> 0], tr)

\* A manager that counts its holders and refuses none.
acquire_counting(counter) == [ret |-> TRUE, counter |-> counter + 1]

acquire(counter) ==
    IF counter = 0 THEN [ret |-> TRUE, counter |-> 1] ELSE [ret |-> FALSE, counter |-> counter]

manager_release(counter) ==
    IF counter = 1 THEN [ret |-> TRUE, counter |-> 0] ELSE [ret |-> FALSE, counter |-> counter]

\* A gate that looks at the configuration zone alone.
config_zone_only(d, both) == ~d.config_zone_locked

check_that_configuration_is_not_locked(d, both) ==
    (~d.data_zone_locked /\ both) \/ ~d.config_zone_locked

get_device_type(tr) == api("atcab_get_device_type", 0, tr)

get_config_buffer_size(tr) ==
    Let([r \in {get_device_type(tr)} |->
        IF r.k = "eff" THEN r ELSE
        Ret(AtcaSuccess,
            IF r.v \in {"ATECC508A", "ATECC608A", "ATECC108A"}
            THEN ATCA_ATECC_CONFIG_BUFFER_SIZE ELSE ATCA_ATSHA_CONFIG_BUFFER_SIZE,
            r.rest)])

read_config_zone(tr) ==
    Let([s \in {get_config_buffer_size(tr)} |->
         IF s.k = "eff" THEN s ELSE api("atcab_read_config_zone", s.v, s.rest)])

\* The descriptors atcab_get_config_from_config_zone pushes for a configuration
\* zone are kept as the image they are decoded from; Slots decodes them, the
\* decoder being a function of the bytes alone.
Decoded(image) == [image |-> image]

Slots(d) ==
    IF d.slots = Decoded(NoImage) THEN <<>>
    ELSE atcab_get_config_from_config_zone(Bytes(d.slots.image), <<>>)

\* self.slots[slot_id as usize]
Slot(d, slot_id) == DecodeSlot(Bytes(d.slots.image), slot_id)

\* self.slots.len()
SlotsLen(d) == IF d.slots = Decoded(NoImage) THEN 0 ELSE ATCA_ATECC_SLOTS_COUNT

get_config_from_chip(tr) ==
    Let([r \in {read_config_zone(tr)} |->
        IF r.k = "eff" THEN r ELSE
        IF r.st # AtcaSuccess THEN Ret(r.st, Decoded(NoImage), r.rest)
        ELSE Let([s \in {get_config_buffer_size(r.rest)} |->
            IF s.k = "eff" THEN s ELSE
            IF r.v.len # s.v THEN Ret(AtcaBadParam, Decoded(NoImage), s.rest)
            ELSE IF r.v.len < ATCA_ATECC_CONFIG_BUFFER_SIZE
            THEN Ret(Panic, Decoded(NoImage), s.rest)
            ELSE Ret(AtcaSuccess, Decoded(r.v.image), s.rest)])])

read_serial_number(tr) == api("atcab_read_serial_number", 0, tr)

is_locked(zone, tr) == api("atcab_is_locked", zone, tr)

read_zone(zone, slot, block, offset, len, tr) ==
    api("atcab_read_zone",
        [zone |-> zone, slot |-> slot, block |-> block, offset |-> offset, len |-> len], tr)

is_aes_supported(tr) ==
    Let([r \in {read_zone("ATCA_ZONE_CONFIG", 0, 0, 3, 4, tr)} |->
        IF r.k = "eff" THEN r ELSE
        IF r.st = AtcaSuccess THEN Ret(AtcaSuccess, (r.v[2] % 2) # 0, r.rest)
        ELSE Ret(r.st, FALSE, r.rest)])

DefaultChipOptions ==
    [aes_enabled |-> FALSE, kdf_aes_enabled |-> FALSE, io_key_enabled |-> FALSE,
     io_key_in_slot |-> 0, ecdh_output_protection |-> 0, kdf_output_protection |-> 0]

get_chip_options_data_from_chip(tr) ==
    Let([r \in {read_zone("ATCA_ZONE_CONFIG", 0, 0, 22, 4, tr)} |->
        IF r.k = "eff" THEN r ELSE
        IF r.st # AtcaSuccess THEN Ret(r.st, DefaultChipOptions, r.rest)
        ELSE Let([s \in {is_aes_supported(r.rest)} |->
            IF s.k = "eff" THEN s ELSE
            IF s.st # AtcaSuccess THEN Ret(s.st, DefaultChipOptions, s.rest)
            ELSE Ret(AtcaSuccess,
                     [aes_enabled |-> s.v,
                      kdf_aes_enabled |-> atcab_get_bit_value(r.v[3], 2),
                      io_key_enabled |-> atcab_get_bit_value(r.v[3], 1),
                      io_key_in_slot |-> Shr(r.v[4], 4) % 16,
                      ecdh_output_protection |-> r.v[4] % 4,
                      kdf_output_protection |-> Shr(r.v[4], 2) % 4],
                     s.rest)])])

\* AteccDevice::default()
DefaultDevice ==
    [state |-> "unborn", iface_cfg_ptr |-> FALSE, serial_number |-> <<>>,
     config_zone_locked |-> FALSE, data_zone_locked |-> FALSE,
     chip_options |-> DefaultChipOptions, slots |-> Decoded(NoImage)]

release(tr) ==
    Let([r \in {resource_manager("release", tr)} |->
        IF r.k = "eff" THEN r ELSE
        IF ~r.v THEN Ret(AtcaBadParam, 0, r.rest)
        ELSE Let([h \in {api("atcab_release", "free iface_cfg_ptr", r.rest)} |->
            IF h.k = "eff" THEN h ELSE
            Ret(h.st, 0, h.rest)])])

\* A failing path of new() after the session was opened:
\* atecc_device.release(); return Err(..)
release_and_fail(st, tr) ==
    Let([r \in {release(tr)} |-> IF r.k = "eff" THEN r ELSE Ret(st, DefaultDevice, r.rest)])

\* The cross-check with its second test left out.
cross_check_aes_only(sn, sl, cl, dl, co, tr) ==
    Let([ty \in {get_device_type(tr)} |->
        IF ty.k = "eff" THEN ty ELSE
        IF co.v.aes_enabled /\ ty.v # "ATECC608A"
        THEN release_and_fail(ConfigMismatch, ty.rest)
        ELSE Ret(AtcaSuccess,
                 [state |-> "ready", iface_cfg_ptr |-> TRUE, serial_number |-> sn.v,
                  config_zone_locked |-> cl.v, data_zone_locked |-> dl.v,
                  chip_options |-> co.v, slots |-> sl.v],
                 ty.rest)])

\* new() from the family/AES cross-check on
cross_check(sn, sl, cl, dl, co, tr) ==
    Let([ty \in {get_device_type(tr)} |->
        IF ty.k = "eff" THEN ty ELSE
        IF co.v.aes_enabled /\ ty.v # "ATECC608A"
        THEN release_and_fail(ConfigMismatch, ty.rest)
        ELSE IF ~co.v.aes_enabled /\ ty.v = "ATECC608A"
        THEN release_and_fail(ConfigMismatch, ty.rest)
        ELSE Ret(AtcaSuccess,
                 [state |-> "ready", iface_cfg_ptr |-> TRUE, serial_number |-> sn.v,
                  config_zone_locked |-> cl.v, data_zone_locked |-> dl.v,
                  chip_options |-> co.v, slots |-> sl.v],
                 ty.rest)])

\* new() once atcab_init has succeeded: the fields are read from the chip
read_fields(tr) ==
    Let([sn \in {read_serial_number(tr)} |->
    IF sn.k = "eff" THEN sn ELSE
    IF sn.st # AtcaSuccess THEN release_and_fail(sn.st, sn.rest)
    ELSE Let([sl \in {get_config_from_chip(sn.rest)} |->
    IF sl.k = "eff" THEN sl ELSE
    IF sl.st = Panic THEN Ret(Panic, DefaultDevice, sl.rest)
    ELSE IF sl.st # AtcaSuccess THEN release_and_fail(sl.st, sl.rest)
    ELSE Let([cl \in {is_locked("ATCA_LOCK_ZONE_CONFIG", sl.rest)} |->
    IF cl.k = "eff" THEN cl ELSE
    IF cl.st # AtcaSuccess THEN release_and_fail(cl.st, cl.rest)
    ELSE Let([dl \in {is_locked("ATCA_LOCK_ZONE_DATA", cl.rest)} |->
    IF dl.k = "eff" THEN dl ELSE
    IF dl.st # AtcaSuccess THEN release_and_fail(dl.st, dl.rest)
    ELSE Let([co \in {get_chip_options_data_from_chip(dl.rest)} |->
    IF co.k = "eff" THEN co ELSE
    IF co.st # AtcaSuccess THEN release_and_fail(co.st, co.rest)
    ELSE cross_check(sn, sl, cl, dl, co, co.rest)])])])])])

new(r_iface_cfg, tr) ==
    Let([a \in {resource_manager("acquire", tr)} |->
        IF a.k = "eff" THEN a ELSE
        IF ~a.v THEN Ret(AtcaAllocFailure, DefaultDevice, a.rest)
        ELSE IF ~r_iface_cfg.ok THEN
            Let([b \in {resource_manager("release", a.rest)} |->
                IF b.k = "eff" THEN b ELSE
                Ret(AtcaBadParam, DefaultDevice, b.rest)])
        ELSE Let([i \in {api("atcab_init", r_iface_cfg, a.rest)} |->
            IF i.k = "eff" THEN i ELSE
            IF i.st # AtcaSuccess THEN
                Let([ib \in {resource_manager("release", i.rest)} |->
                    IF ib.k = "eff" THEN ib ELSE
                    Let([fb \in {free_box(ib.rest)} |->
                         IF fb.k = "eff" THEN fb ELSE Ret(i.st, DefaultDevice, fb.rest)])])
            ELSE read_fields(i.rest)])])

random(d, tr) ==
    IF check_that_configuration_is_not_locked(d, FALSE) THEN Ret(AtcaNotLocked, 0, tr)
    ELSE Let([h \in {api("atcab_random", ATCA_RANDOM_BUFFER_SIZE, tr)} |->
        IF h.k = "eff" THEN h ELSE
        Ret(h.st, ATCA_RANDOM_BUFFER_SIZE, h.rest)])

\* sha without the conversion of the length to 16 bits.
sha_unchecked(d, message_len, tr) ==
    IF check_that_configuration_is_not_locked(d, FALSE) THEN Ret(AtcaNotLocked, 0, tr)
    ELSE Let([h \in {api("atcab_sha", message_len, tr)} |->
              IF h.k = "eff" THEN h ELSE Ret(h.st, ATCA_SHA2_256_DIGEST_SIZE, h.rest)])

sha(d, message_len, tr) ==
    IF check_that_configuration_is_not_locked(d, FALSE) THEN Ret(AtcaNotLocked, 0, tr)
    ELSE IF message_len > U16_MAX THEN Ret(AtcaBadParam, 0, tr)
    ELSE Let([h \in {api("atcab_sha", message_len, tr)} |->
        IF h.k = "eff" THEN h ELSE
        Ret(h.st, ATCA_SHA2_256_DIGEST_SIZE, h.rest)])

\* The size checks without the one for the alternate key buffer.
nonce_size_mismatch_no_alt(dev_type_608, alt_key_buff, no_len_32, no_len_64) ==
    \/ (~dev_type_608 /\ alt_key_buff)
    \/ (~dev_type_608 /\ ~no_len_64)
    \/ (no_len_32 /\ no_len_64)
    \/ (~no_len_32 /\ ~no_len_64)

\* The size checks of nonce() for a device type, a target and a data length.
nonce_size_mismatch(dev_type_608, alt_key_buff, no_len_32, no_len_64) ==
    \/ (~dev_type_608 /\ alt_key_buff)
    \/ (alt_key_buff /\ no_len_32)
    \/ (~dev_type_608 /\ ~no_len_64)
    \/ (no_len_32 /\ no_len_64)
    \/ (~no_len_32 /\ ~no_len_64)

nonce(target, data_len, tr) ==
    Let([t1 \in {get_device_type(tr)} |->
        IF t1.k = "eff" THEN t1 ELSE
        IF t1.v # "ATECC608A" /\ target # "TempKey" THEN Ret(AtcaBadParam, 0, t1.rest)
        ELSE Let([t2 \in {get_device_type(t1.rest)} |->
            IF t2.k = "eff" THEN t2 ELSE
            IF nonce_size_mismatch(t2.v = "ATECC608A", target = "AltKeyBuf",
                                   data_len # ATCA_NONCE_SIZE,
                                   data_len # 2 * ATCA_NONCE_SIZE)
            THEN Ret(AtcaInvalidSize, 0, t2.rest)
            ELSE Let([h \in {api("atcab_nonce_load", [target |-> target, len |-> data_len],
                          t2.rest)}
                      |-> IF h.k = "eff" THEN h ELSE Ret(h.st, 0, h.rest)])])])

\* nonce_rand without its check of the host nonce length.
nonce_rand_unchecked(host_nonce_len, tr) ==
    Let([h \in {api("atcab_nonce_rand", host_nonce_len, tr)} |->
         IF h.k = "eff" THEN h ELSE Ret(h.st, ATCA_RANDOM_BUFFER_SIZE, h.rest)])

nonce_rand(host_nonce_len, tr) ==
    IF host_nonce_len # ATCA_NONCE_NUMIN_SIZE THEN Ret(AtcaInvalidSize, 0, tr)
    ELSE Let([h \in {api("atcab_nonce_rand", host_nonce_len, tr)} |->
        IF h.k = "eff" THEN h ELSE
        Ret(h.st, ATCA_RANDOM_BUFFER_SIZE, h.rest)])

\* self.slots[slot_id as usize].config, decoded once

\* The pre-check without the question whether the chip has AES enabled.
encryption_key_setup_ignoring_aes(d, key_type, slot_id) ==
    IF slot_id > ATCA_ATECC_SLOTS_COUNT THEN AtcaInvalidId
    ELSE IF \/ (slot_id = ATCA_ATECC_SLOTS_COUNT /\ key_type # "Aes")
            \/ (slot_id < ATCA_ATECC_SLOTS_COUNT /\ key_type # Slot(d, slot_id).config.key_type)
         THEN AtcaBadParam
    ELSE AtcaSuccess

\* Ok(()) is AtcaSuccess.
encryption_key_setup_parameters_check(d, key_type, slot_id) ==
    IF slot_id > ATCA_ATECC_SLOTS_COUNT THEN AtcaInvalidId
    ELSE IF \/ (slot_id = ATCA_ATECC_SLOTS_COUNT /\ key_type # "Aes")
            \/ (key_type = "Aes" /\ ~d.chip_options.aes_enabled)
            \/ (slot_id < ATCA_ATECC_SLOTS_COUNT /\ key_type # Slot(d, slot_id).config.key_type)
         THEN AtcaBadParam
    ELSE AtcaSuccess

\* The slot check without the question for the device type.
access_key_slot_range_only(slot_id, tr) ==
    IF slot_id > ATCA_ATECC_SLOTS_COUNT THEN Ret(AtcaInvalidId, 0, tr)
    ELSE Ret(AtcaSuccess, 0, tr)

\* Ok(()) is AtcaSuccess; the device type is asked for the reserved slot only.
access_key_setup_parameters_check(slot_id, tr) ==
    IF slot_id > ATCA_ATECC_SLOTS_COUNT THEN Ret(AtcaInvalidId, 0, tr)
    ELSE IF slot_id = ATCA_ATECC_SLOTS_COUNT THEN
        Let([t \in {get_device_type(tr)} |->
            IF t.k = "eff" THEN t ELSE
            IF t.v # "ATECC608A" THEN Ret(AtcaInvalidId, 0, t.rest)
            ELSE Ret(AtcaSuccess, 0, t.rest)])
    ELSE Ret(AtcaSuccess, 0, tr)

get_slot_capacity(slot_id) ==
    IF slot_id \in 0..7 THEN [blocks |-> 2, last_block_bytes |-> 4, bytes |-> 36]
    ELSE IF slot_id = 8 THEN [blocks |-> 13, last_block_bytes |-> 32, bytes |-> 416]
    ELSE IF slot_id \in 9..15 THEN [blocks |-> 3, last_block_bytes |-> 8, bytes |-> 72]
    ELSE [blocks |-> 0, last_block_bytes |-> 0, bytes |-> 0]

\* Some(idx) is [some |-> TRUE, idx |-> idx].
None == [some |-> FALSE, idx |-> 0]

get_write_key_idx(d, slot_id) ==
    IF slot_id < ATCA_ATECC_SLOTS_COUNT
    THEN Let([cfg \in {Slot(d, slot_id).config} |->
            IF cfg.write_config = "Encrypt"
            THEN [some |-> TRUE, idx |-> cfg.write_key] ELSE None])
    ELSE None

get_read_key_idx(d, slot_id) ==
    IF slot_id < ATCA_ATECC_SLOTS_COUNT
    THEN Let([cfg \in {Slot(d, slot_id).config} |->
            IF cfg.read_key.encrypt_read /\ cfg.is_secret /\ ~cfg.ecc_key_attr.is_private
            THEN [some |-> TRUE, idx |-> cfg.read_key.slot_number] ELSE None])
    ELSE None

\* self.access_keys.lock() ... try_borrow_mut(): one critical section on the store
key_store(p, a, tr) == Perform([k |-> "ak", p |-> p, a |-> a], tr)

get_access_key(slot_id, tr) ==
    Let([c \in {access_key_setup_parameters_check(slot_id, tr)} |->
        IF c.k = "eff" THEN c ELSE
        IF c.st # AtcaSuccess THEN Ret(c.st, 0, c.rest)
        ELSE Let([g \in {key_store("get", slot_id, c.rest)} |->
                  IF g.k = "eff" THEN g ELSE Ret(g.st, g.v, g.rest)])])

\* add_access_key without its check of the key length.
add_access_key_unsized(slot_id, access_key, tr) ==
    Let([c \in {access_key_setup_parameters_check(slot_id, tr)} |->
        IF c.k = "eff" THEN c ELSE
        IF c.st # AtcaSuccess THEN Ret(c.st, 0, c.rest)
        ELSE Let([g \in {key_store("add", [slot |-> slot_id, key |-> access_key], c.rest)} |->
            IF g.k = "eff" THEN g ELSE Ret(g.st, 0, g.rest)])])

add_access_key(slot_id, access_key, tr) ==
    Let([c \in {access_key_setup_parameters_check(slot_id, tr)} |->
        IF c.k = "eff" THEN c ELSE
        IF c.st # AtcaSuccess THEN Ret(c.st, 0, c.rest)
        ELSE IF access_key.len # ATCA_KEY_SIZE THEN Ret(AtcaInvalidSize, 0, c.rest)
        ELSE Let([g \in {key_store("add", [slot |-> slot_id, key |-> access_key], c.rest)}
                  |-> IF g.k = "eff" THEN g ELSE Ret(g.st, 0, g.rest)])])

flush_access_keys(tr) ==
    Let([g \in {key_store("flush", 0, tr)} |-> IF g.k = "eff" THEN g ELSE Ret(g.st, 0, g.rest)])

write_zone(zone, slot, block, offset, data, len, tr) ==
    Let([h \in {api("atcab_write_zone",
             [zone |-> zone, slot |-> slot, block |-> block, offset |-> offset,
              data |-> data, len |-> len], tr)}
         |-> IF h.k = "eff" THEN h ELSE Ret(h.st, 0, h.rest)])

write_slot_with_encryption(d, slot, block, data, num_in_len, tr) ==
    IF data.len # ATCA_BLOCK_SIZE \/ num_in_len # ATCA_NONCE_NUMIN_SIZE
    THEN Ret(AtcaInvalidSize, 0, tr)
    ELSE IF slot >= ATCA_ATECC_SLOTS_COUNT \/ block >= get_slot_capacity(slot).blocks
    THEN Ret(AtcaInvalidId, 0, tr)
    ELSE Let([w \in {get_write_key_idx(d, slot)} |->
        IF ~w.some THEN Ret(AtcaBadParam, 0, tr)
        ELSE Let([g \in {get_access_key(w.idx, tr)} |->
            IF g.k = "eff" THEN g ELSE
            IF g.st # AtcaSuccess THEN Ret(g.st, 0, g.rest)
            ELSE Let([h \in {api("atcab_write_enc",
                          [slot |-> slot, block |-> block, data |-> data, key |-> g.v,
                           key_idx |-> w.idx], g.rest)}
                      |-> IF h.k = "eff" THEN h ELSE Ret(h.st, 0, h.rest)])])])

read_slot_with_encryption(d, slot, block, data_len, num_in_len, tr) ==
    IF data_len # ATCA_BLOCK_SIZE \/ num_in_len # ATCA_NONCE_NUMIN_SIZE
    THEN Ret(AtcaInvalidSize, 0, tr)
    ELSE IF slot >= ATCA_ATECC_SLOTS_COUNT \/ block >= get_slot_capacity(slot).blocks
    THEN Ret(AtcaInvalidId, 0, tr)
    ELSE Let([w \in {get_read_key_idx(d, slot)} |->
        IF ~w.some THEN Ret(AtcaBadParam, 0, tr)
        ELSE Let([g \in {get_access_key(w.idx, tr)} |->
            IF g.k = "eff" THEN g ELSE
            IF g.st # AtcaSuccess THEN Ret(g.st, 0, g.rest)
            ELSE Let([h \in {api("atcab_read_enc",
                          [slot |-> slot, block |-> block, key |-> g.v,
                           key_idx |-> w.idx], g.rest)}
                      |-> IF h.k = "eff" THEN h ELSE Ret(h.st, h.v, h.rest)])])])

\* A byte buffer is its length and a tag for its content.
Buf(len, val) == [len |-> len, val |-> val]

\* key.truncate / key.resize: the content tag is kept, the length changes.
Resized(buf, len) == Buf(len, buf.val)

\* key.truncate(ATCA_AES_KEY_SIZE) and key.resize(ATCA_BLOCK_SIZE, 0) in gen_key
aes_key_block(key) ==
    Let([k1 \in {IF key.len > ATCA_AES_KEY_SIZE THEN Resized(key, ATCA_AES_KEY_SIZE) ELSE key}
        |-> IF k1.len < ATCA_BLOCK_SIZE THEN Resized(k1, ATCA_BLOCK_SIZE) ELSE k1])

\* ATCA_ATECC_SLOTS_COUNT => ATCA_ATECC_TEMPKEY_KEYID, _ => slot_id as u16
slot_of(slot_id) ==
    IF slot_id = ATCA_ATECC_SLOTS_COUNT THEN ATCA_ATECC_TEMPKEY_KEYID ELSE slot_id

\* A write by configuration that treats every write_config but Encrypt as Always.
write_by_config_plain(d, slot_id, key, tr) ==
    Let([cfg \in {Slot(d, slot_id).config} |->
        IF cfg.write_config = "Encrypt"
        THEN write_slot_with_encryption(d, slot_of(slot_id), 0, key,
                                        ATCA_NONCE_NUMIN_SIZE, tr)
        ELSE write_zone("ATCA_ZONE_DATA", slot_of(slot_id), 0, 0, key, ATCA_BLOCK_SIZE, tr)])

\* The write of an AES key block by the slot's write_config (gen_key, import_key)
write_by_config(d, slot_id, key, tr) ==
    Let([cfg \in {Slot(d, slot_id).config} |->
        IF cfg.write_config = "Always"
        THEN write_zone("ATCA_ZONE_DATA", slot_of(slot_id), 0, 0, key, ATCA_BLOCK_SIZE, tr)
        ELSE IF cfg.write_config = "Encrypt"
        THEN write_slot_with_encryption(d, slot_of(slot_id), 0, key,
                                        ATCA_NONCE_NUMIN_SIZE, tr)
        ELSE Ret(AtcaBadParam, 0, tr)])

\* The KeyType::Aes arm of gen_key
gen_key_aes(d, slot_id, tr) ==
    Let([result \in {random(d, tr)} |->
        IF result.k = "eff" THEN result ELSE
        Let([second \in {random(d, result.rest)} |->
            IF second.k = "eff" THEN second ELSE
            IF second.st # AtcaSuccess THEN Ret(result.st, 0, second.rest)
            ELSE IF slot_of(slot_id) # ATCA_ATECC_TEMPKEY_KEYID
            THEN write_by_config(d, slot_id,
                                 aes_key_block(Buf(ATCA_RANDOM_BUFFER_SIZE, "random")),
                                 second.rest)
            ELSE Ret(AtcaUnimplemented, 0, second.rest)])])

\* gen_key that generates an ECC key on a slot whatever its is_secret flag.
gen_key_on_open_slot(d, key_type, slot_id, tr) ==
    IF check_that_configuration_is_not_locked(d, FALSE) THEN Ret(AtcaNotLocked, 0, tr)
    ELSE Let([chk \in {encryption_key_setup_parameters_check(d, key_type, slot_id)} |->
        IF chk # AtcaSuccess THEN Ret(chk, 0, tr)
        ELSE IF key_type = "P256EccKey" THEN
            Let([g \in {api("atcab_genkey", slot_of(slot_id), tr)} |->
                IF g.k = "eff" THEN g ELSE Ret(g.st, 0, g.rest)])
        ELSE IF key_type = "Aes" THEN gen_key_aes(d, slot_id, tr)
        ELSE Ret(AtcaBadParam, 0, tr)])

gen_key(d, key_type, slot_id, tr) ==
    IF check_that_configuration_is_not_locked(d, FALSE) THEN Ret(AtcaNotLocked, 0, tr)
    ELSE Let([chk \in {encryption_key_setup_parameters_check(d, key_type, slot_id)} |->
        IF chk # AtcaSuccess THEN Ret(chk, 0, tr)
        ELSE IF key_type = "P256EccKey" THEN
            (IF ~Slot(d, slot_id).config.is_secret THEN Ret(AtcaBadParam, 0, tr)
             ELSE Let([g \in {api("atcab_genkey", slot_of(slot_id), tr)} |->
                      IF g.k = "eff" THEN g ELSE
                      Ret(g.st, 0, g.rest)]))
        ELSE IF key_type = "Aes" THEN gen_key_aes(d, slot_id, tr)
        ELSE Ret(AtcaBadParam, 0, tr)])

\* A private-key import that takes the slot's write_key whatever its write_config.
import_priv_key_any_config(d, key_data, slot_id, tr) ==
    Let([w \in {[some |-> TRUE, idx |-> Slot(d, slot_id).config.write_key]} |->
        Let([g \in {get_access_key(w.idx, tr)} |->
            IF g.k = "eff" THEN g ELSE
            IF g.st # AtcaSuccess THEN Ret(g.st, 0, g.rest)
            ELSE Let([h \in {api("atcab_priv_write",
                          [slot |-> slot_of(slot_id),
                           data |-> Resized(key_data, 4 + key_data.len),
                           key |-> g.v, key_idx |-> w.idx], g.rest)}
                      |-> IF h.k = "eff" THEN h ELSE Ret(h.st, 0, h.rest)])])])

\* The private-key arm of import_key: temp_key is four zero bytes and key_data.
import_priv_key(d, key_data, slot_id, tr) ==
    Let([w \in {get_write_key_idx(d, slot_id)} |->
        IF ~w.some THEN Ret(AtcaBadParam, 0, tr)
        ELSE Let([g \in {get_access_key(w.idx, tr)} |->
            IF g.k = "eff" THEN g ELSE
            IF g.st # AtcaSuccess THEN Ret(g.st, 0, g.rest)
            ELSE Let([h \in {api("atcab_priv_write",
                          [slot |-> slot_of(slot_id),
                           data |-> Resized(key_data, 4 + key_data.len),
                           key |-> g.v, key_idx |-> w.idx], g.rest)}
                      |-> IF h.k = "eff" THEN h ELSE Ret(h.st, 0, h.rest)])])])

\* import_key without its check of the key length.
import_key_unsized(d, key_type, key_data, slot_id, tr) ==
    IF check_that_configuration_is_not_locked(d, TRUE) THEN Ret(AtcaNotLocked, 0, tr)
    ELSE Let([chk \in {encryption_key_setup_parameters_check(d, key_type, slot_id)} |->
        IF chk # AtcaSuccess THEN Ret(chk, 0, tr)
        ELSE IF key_type = "P256EccKey" THEN
            (IF key_data.len = ATCA_ATECC_PUB_KEY_SIZE THEN
                (IF slot_id < ATCA_ATECC_MIN_SLOT_IDX_FOR_PUB_KEY THEN Ret(AtcaInvalidId, 0, tr)
                 ELSE Let([h \in {api("atcab_write_pubkey",
                               [slot |-> slot_of(slot_id), data |-> key_data], tr)}
                           |-> IF h.k = "eff" THEN h ELSE Ret(h.st, 0, h.rest)]))
             ELSE import_priv_key(d, key_data, slot_id, tr))
        ELSE IF key_type = "Aes" THEN
            (IF slot_of(slot_id) # ATCA_ATECC_TEMPKEY_KEYID
             THEN write_by_config(d, slot_of(slot_id), Resized(key_data, ATCA_BLOCK_SIZE), tr)
             ELSE nonce("TempKey", ATCA_BLOCK_SIZE, tr))
        ELSE IF key_type = "ShaOrText" THEN Ret(AtcaUnimplemented, 0, tr)
        ELSE Ret(AtcaBadParam, 0, tr)])

import_key(d, key_type, key_data, slot_id, tr) ==
    IF check_that_configuration_is_not_locked(d, TRUE) THEN Ret(AtcaNotLocked, 0, tr)
    ELSE Let([chk \in {encryption_key_setup_parameters_check(d, key_type, slot_id)} |->
        IF chk # AtcaSuccess THEN Ret(chk, 0, tr)
        ELSE IF \/ (key_type = "Aes" /\ key_data.len # ATCA_AES_KEY_SIZE)
                \/ (key_type = "P256EccKey"
                    /\ ~(key_data.len = ATCA_ATECC_PRIV_KEY_SIZE
                         \/ key_data.len = ATCA_ATECC_PUB_KEY_SIZE))
             THEN Ret(AtcaInvalidSize, 0, tr)
        ELSE IF key_type = "P256EccKey" THEN
            (IF key_data.len = ATCA_ATECC_PUB_KEY_SIZE THEN
                (IF slot_id < ATCA_ATECC_MIN_SLOT_IDX_FOR_PUB_KEY THEN Ret(AtcaInvalidId, 0, tr)
                 ELSE Let([h \in {api("atcab_write_pubkey",
                               [slot |-> slot_of(slot_id), data |-> key_data], tr)}
                           |-> IF h.k = "eff" THEN h ELSE Ret(h.st, 0, h.rest)]))
             ELSE import_priv_key(d, key_data, slot_id, tr))
        ELSE IF key_type = "Aes" THEN
            (IF slot_of(slot_id) # ATCA_ATECC_TEMPKEY_KEYID
             THEN write_by_config(d, slot_of(slot_id), Resized(key_data, ATCA_BLOCK_SIZE), tr)
             ELSE nonce("TempKey", ATCA_BLOCK_SIZE, tr))
        ELSE IF key_type = "ShaOrText" THEN Ret(AtcaUnimplemented, 0, tr)
        ELSE Ret(AtcaBadParam, 0, tr)])

\* The arms of get_public_key without the lowest slot a public key can be in.
get_public_key_any_slot(cfg, slot_id, tr) ==
    IF cfg.key_type # "P256EccKey" THEN Ret(AtcaBadParam, 0, tr)
    ELSE IF cfg.is_secret THEN
        (IF cfg.pub_info /\ cfg.ecc_key_attr.is_private THEN
            Let([h \in {api("atcab_get_pubkey", slot_id, tr)} |->
                IF h.k = "eff" THEN h ELSE
                Ret(h.st, Buf(ATCA_ATECC_PUB_KEY_SIZE, h.v), h.rest)])
         ELSE IF cfg.read_key.encrypt_read THEN Ret(AtcaUnimplemented, 0, tr)
         ELSE Ret(AtcaBadParam, 0, tr))
    ELSE IF cfg.write_config = "Always" THEN
        Let([h \in {api("atcab_read_pubkey", slot_id, tr)} |->
            IF h.k = "eff" THEN h ELSE
            Ret(h.st, Buf(ATCA_ATECC_PUB_KEY_SIZE, h.v), h.rest)])
    ELSE Ret(AtcaBadParam, 0, tr)

\* The arms of get_public_key for a decoded slot configuration
get_public_key_by_config(cfg, slot_id, tr) ==
    IF cfg.key_type # "P256EccKey" THEN Ret(AtcaBadParam, 0, tr)
    ELSE IF cfg.is_secret THEN
        (IF cfg.pub_info /\ cfg.ecc_key_attr.is_private THEN
            Let([h \in {api("atcab_get_pubkey", slot_id, tr)} |->
                IF h.k = "eff" THEN h ELSE
                Ret(h.st, Buf(ATCA_ATECC_PUB_KEY_SIZE, h.v), h.rest)])
         ELSE IF cfg.read_key.encrypt_read THEN
            (IF slot_id < ATCA_ATECC_MIN_SLOT_IDX_FOR_PUB_KEY
             THEN Ret(AtcaInvalidId, 0, tr) ELSE Ret(AtcaUnimplemented, 0, tr))
         ELSE Ret(AtcaBadParam, 0, tr))
    ELSE IF cfg.write_config = "Always" THEN
        (IF slot_id < ATCA_ATECC_MIN_SLOT_IDX_FOR_PUB_KEY THEN Ret(AtcaInvalidId, 0, tr)
         ELSE Let([h \in {api("atcab_read_pubkey", slot_id, tr)} |->
                IF h.k = "eff" THEN h ELSE
                Ret(h.st, Buf(ATCA_ATECC_PUB_KEY_SIZE, h.v), h.rest)]))
    ELSE Ret(AtcaBadParam, 0, tr)

get_public_key(d, slot_id, tr) ==
    IF check_that_configuration_is_not_locked(d, TRUE) THEN Ret(AtcaNotLocked, 0, tr)
    ELSE IF slot_id >= SlotsLen(d) THEN Ret(Panic, 0, tr)
    ELSE Let([cfg \in {Slot(d, slot_id).config} |-> get_public_key_by_config(cfg, slot_id, tr)])

\* A read of an AES key that does not look at the slot's configured key type.
read_aes_key_any_type(d, slot_id, tr) ==
    Let([plain \in {read_zone("ATCA_ZONE_DATA", slot_id, 0, 0, ATCA_BLOCK_SIZE, tr)} |->
        IF plain.k = "eff" THEN plain ELSE
        Ret(plain.st,
            IF plain.st = AtcaSuccess THEN Buf(ATCA_AES_KEY_SIZE, "zeros") ELSE 0,
            plain.rest)])

\* The plain read fills a temporary copy of data_block (data_block.to_vec()),
\* so data_block itself stays zeroed on that path.
read_aes_key_from_slot(d, slot_id, tr) ==
    Let([slot_data \in {Slot(d, slot_id).config} |->
        IF slot_data.key_type # "Aes" THEN Ret(AtcaBadParam, 0, tr)
        ELSE IF slot_data.is_secret /\ slot_data.read_key.encrypt_read THEN
            Let([enc \in {read_slot_with_encryption(d, slot_id, 0, ATCA_BLOCK_SIZE,
                                           ATCA_NONCE_NUMIN_SIZE, tr)}
                 |->
                    IF enc.k = "eff" THEN enc ELSE
                    Ret(enc.st,
                        IF enc.st = AtcaSuccess THEN Buf(ATCA_AES_KEY_SIZE, enc.v) ELSE 0,
                        enc.rest)])
        ELSE Let([plain \in {read_zone("ATCA_ZONE_DATA", slot_id, 0, 0, ATCA_BLOCK_SIZE, tr)}
                  |->
                    IF plain.k = "eff" THEN plain ELSE
                    Ret(plain.st,
                        IF plain.st = AtcaSuccess THEN Buf(ATCA_AES_KEY_SIZE, "zeros") ELSE 0,
                        plain.rest)])])

read_sha_or_text_key_from_slot(d, slot_id, key_len, tr) ==
    IF Slot(d, slot_id).config.key_type # "ShaOrText" THEN Ret(AtcaBadParam, 0, tr)
    ELSE IF key_len > get_slot_capacity(slot_id).bytes THEN Ret(AtcaInvalidSize, 0, tr)
    ELSE Ret(AtcaUnimplemented, 0, tr)

export_key(d, key_type, key_len, slot_id, tr) ==
    IF check_that_configuration_is_not_locked(d, TRUE) THEN Ret(AtcaNotLocked, 0, tr)
    ELSE IF slot_id >= ATCA_ATECC_SLOTS_COUNT THEN Ret(AtcaInvalidId, 0, tr)
    ELSE IF key_type = "P256EccKey" THEN get_public_key(d, slot_id, tr)
    ELSE IF key_type = "Aes" THEN read_aes_key_from_slot(d, slot_id, tr)
    ELSE IF key_type = "ShaOrText" THEN read_sha_or_text_key_from_slot(d, slot_id, key_len, tr)
    ELSE Ret(AtcaBadParam, 0, tr)

\* A sign_hash that hands every mode to the hardware sign primitive.
sign_hash_every_mode(d, mode, slot_id, tr) ==
    IF check_that_configuration_is_not_locked(d, TRUE) THEN Ret(AtcaNotLocked, 0, tr)
    ELSE IF slot_id >= ATCA_ATECC_SLOTS_COUNT THEN Ret(AtcaInvalidId, 0, tr)
    ELSE Let([h \in {api("atcab_sign", [slot |-> slot_id, hash_len |-> mode.hash_len], tr)}
              |-> IF h.k = "eff" THEN h ELSE Ret(h.st, ATCA_SIG_SIZE, h.rest)])

\* mode is [kind |-> "External", hash_len |-> n] or [kind |-> "Internal"]
sign_hash(d, mode, slot_id, tr) ==
    IF check_that_configuration_is_not_locked(d, TRUE) THEN Ret(AtcaNotLocked, 0, tr)
    ELSE IF slot_id >= ATCA_ATECC_SLOTS_COUNT THEN Ret(AtcaInvalidId, 0, tr)
    ELSE IF mode.kind = "External" THEN
        Let([h \in {api("atcab_sign", [slot |-> slot_id, hash_len |-> mode.hash_len], tr)}
             |-> IF h.k = "eff" THEN h ELSE Ret(h.st, ATCA_SIG_SIZE, h.rest)])
    ELSE Ret(AtcaUnimplemented, ATCA_SIG_SIZE, tr)

\* A verify_hash that reports every signature the chip processed as verified.
verify_hash_always_verified(d, mode, hash_len, signature_len, tr) ==
    IF check_that_configuration_is_not_locked(d, TRUE) THEN Ret(AtcaNotLocked, FALSE, tr)
    ELSE IF signature_len # ATCA_SIG_SIZE \/ hash_len # ATCA_SHA2_256_DIGEST_SIZE
    THEN Ret(AtcaInvalidSize, FALSE, tr)
    ELSE IF mode.kind = "Internal" THEN
        (IF mode.slot >= ATCA_ATECC_SLOTS_COUNT THEN Ret(AtcaInvalidId, FALSE, tr)
         ELSE Let([h \in {api("atcab_verify_stored", mode, tr)} |->
                   IF h.k = "eff" THEN h ELSE Ret(h.st, TRUE, h.rest)]))
    ELSE IF mode.kind = "External" THEN
        (IF mode.key_len # ATCA_ATECC_PUB_KEY_SIZE THEN Ret(AtcaInvalidId, FALSE, tr)
         ELSE Let([h \in {api("atcab_verify_extern", mode, tr)} |->
                   IF h.k = "eff" THEN h ELSE Ret(h.st, TRUE, h.rest)]))
    ELSE Ret(AtcaUnimplemented, FALSE, tr)

\* mode is [kind |-> "Internal", slot |-> n], [kind |-> "External", key_len |-> n]
\* or another kind; mode.genuine tells whether the signature is the signature of
\* the hash under the key, which is what the chip reports in is_verified.
\* Ok(b) is status AtcaSuccess with value b.
verify_hash(d, mode, hash_len, signature_len, tr) ==
    IF check_that_configuration_is_not_locked(d, TRUE) THEN Ret(AtcaNotLocked, FALSE, tr)
    ELSE IF signature_len # ATCA_SIG_SIZE \/ hash_len # ATCA_SHA2_256_DIGEST_SIZE
    THEN Ret(AtcaInvalidSize, FALSE, tr)
    ELSE IF mode.kind = "Internal" THEN
        (IF mode.slot >= ATCA_ATECC_SLOTS_COUNT THEN Ret(AtcaInvalidId, FALSE, tr)
         ELSE Let([h \in {api("atcab_verify_stored", mode, tr)} |->
                   IF h.k = "eff" THEN h ELSE Ret(h.st, h.v, h.rest)]))
    ELSE IF mode.kind = "External" THEN
        (IF mode.key_len # ATCA_ATECC_PUB_KEY_SIZE THEN Ret(AtcaInvalidId, FALSE, tr)
         ELSE Let([h \in {api("atcab_verify_extern", mode, tr)} |->
                   IF h.k = "eff" THEN h ELSE Ret(h.st, h.v, h.rest)]))
    ELSE Ret(AtcaUnimplemented, FALSE, tr)

\* self.cipher_aes_ctr(..) .. self.decrypt_aes_gcm(..): the per-mode handlers
mode_handler(name, slot_id, tr) ==
    Let([h \in {api(name, slot_id, tr)} |-> IF h.k = "eff" THEN h ELSE Ret(h.st, h.v, h.rest)])

CipherHandlers == {"Ctr", "Cfb", "Ofb", "Ecb", "Cbc", "CbcPkcs7"}

\* A cipher that dispatches without looking at aes_enabled.
cipher_ignoring_aes(d, operation, algorithm, slot_id, tr) ==
    IF check_that_configuration_is_not_locked(d, TRUE) THEN Ret(AtcaNotLocked, 0, tr)
    ELSE IF algorithm \in CipherHandlers THEN mode_handler("cipher_aes_" \o algorithm, slot_id, tr)
    ELSE Ret(AtcaUnimplemented, 0, tr)

\* cipher_encrypt and cipher_decrypt: operation is "Encrypt" or "Decrypt"
cipher(d, operation, algorithm, slot_id, tr) ==
    IF check_that_configuration_is_not_locked(d, TRUE) THEN Ret(AtcaNotLocked, 0, tr)
    ELSE IF ~d.chip_options.aes_enabled THEN Ret(AtcaBadParam, 0, tr)
    ELSE IF algorithm \in CipherHandlers THEN mode_handler("cipher_aes_" \o algorithm, slot_id, tr)
    ELSE Ret(AtcaUnimplemented, 0, tr)

\* aead_encrypt and aead_decrypt
aead(d, operation, algorithm, slot_id, tr) ==
    IF check_that_configuration_is_not_locked(d, TRUE) THEN Ret(AtcaNotLocked, 0, tr)
    ELSE IF ~d.chip_options.aes_enabled THEN Ret(AtcaBadParam, 0, tr)
    ELSE mode_handler(operation \o "_aes_" \o algorithm, slot_id, tr)

info_cmd(command, tr) ==
    IF command \notin {"Revision", "State"} THEN Ret(AtcaUnimplemented, 0, tr)
    ELSE Let([h \in {api("atcab_info_base", command, tr)} |->
              IF h.k = "eff" THEN h ELSE Ret(h.st, h.v, h.rest)])

\* A get_config that hands back an empty vector.
get_config_empty(d, tr) == Ret(AtcaSuccess, Decoded(NoImage), tr)

get_config(d, tr) == Ret(AtcaSuccess, d.slots, tr)

\* The program of a call.
Prog(call, d, tr) ==
    IF call.op = "new" THEN new(call.cfg, tr)
    ELSE IF call.op = "release" THEN release(tr)
    ELSE IF call.op = "random" THEN random(d, tr)
    ELSE IF call.op = "sha" THEN sha(d, call.len, tr)
    ELSE IF call.op = "nonce" THEN nonce(call.target, call.len, tr)
    ELSE IF call.op = "nonce_rand" THEN nonce_rand(call.len, tr)
    ELSE IF call.op = "gen_key" THEN gen_key(d, call.key_type, call.slot_id, tr)
    ELSE IF call.op = "import_key" THEN
        import_key(d, call.key_type, call.key_data, call.slot_id, tr)
    ELSE IF call.op = "export_key" THEN export_key(d, call.key_type, call.len, call.slot_id, tr)
    ELSE IF call.op = "get_public_key" THEN get_public_key(d, call.slot_id, tr)
    ELSE IF call.op = "sign_hash" THEN sign_hash(d, call.mode, call.slot_id, tr)
    ELSE IF call.op = "verify_hash" THEN verify_hash(d, call.mode, call.len, call.sig_len, tr)
    ELSE IF call.op \in {"cipher_encrypt", "cipher_decrypt"} THEN
        cipher(d, IF call.op = "cipher_encrypt" THEN "Encrypt" ELSE "Decrypt",
               call.algorithm, call.slot_id, tr)
    ELSE IF call.op \in {"aead_encrypt", "aead_decrypt"} THEN
        aead(d, IF call.op = "aead_encrypt" THEN "encrypt" ELSE "decrypt",
             call.algorithm, call.slot_id, tr)
    ELSE IF call.op = "info_cmd" THEN info_cmd(call.command, tr)
    ELSE IF call.op = "add_access_key" THEN add_access_key(call.slot_id, call.key_data, tr)
    ELSE IF call.op = "get_access_key" THEN get_access_key(call.slot_id, tr)
    ELSE IF call.op = "flush_access_keys" THEN flush_access_keys(tr)
    ELSE get_config(d, tr)

----------------------------------------------------------------------------
\* Threads.

NoCall == [op |-> "none", ctx |-> 0, stale |-> FALSE]
NoRes == [st |-> "none", out |-> 0, hw |-> <<>>]
NoEff == [k |-> "none", p |-> "none", a |-> 0]
Idle == [pc |-> "idle", call |-> NoCall, tr |-> <<>>, eff |-> NoEff, res |-> NoRes]

\* The hardware primitives among the effects of a trace, each with its status.
RECURSIVE HwOf(_)
HwOf(tr) ==
    IF tr = <<>> THEN <<>>
    ELSE IF Head(tr).e.k = "hw"
         THEN <<[p |-> Head(tr).e.p, a |-> Head(tr).e.a, st |-> Head(tr).st]>> \o HwOf(Tail(tr))
         ELSE HwOf(Tail(tr))

EmptyKeys == [s \in {} |-> 0]

\* The effect a running call performs next.
NextEff(t) == th[t].eff

\* The call of thread t goes on with the outcomes tr: it returns when its program
\* does, and a returning new() hands the device (or nothing) to its caller.
Continue(t, call, tr) ==
    \E r \in {Prog(call, dev[call.ctx], tr)}, c \in {call.ctx} :
        /\ th' = [th EXCEPT ![t] =
                    IF r.k = "ret"
                    THEN [pc |-> "done", call |-> call, tr |-> <<>>, eff |-> NoEff,
                          res |-> [st |-> r.st, out |-> IF call.op = "new" THEN 0 ELSE r.v,
                                   hw |-> HwOf(tr)]]
                    ELSE [pc |-> "run", call |-> call, tr |-> tr, eff |-> r.e,
                          res |-> NoRes]]
        /\ dev' = IF call.op # "new" THEN dev
                  ELSE [dev EXCEPT ![c] =
                          IF r.k # "ret" THEN [DefaultDevice EXCEPT !.state = "initializing"]
                          ELSE IF r.st = AtcaSuccess THEN r.v
                          ELSE [DefaultDevice EXCEPT !.state = "failed"]]
        /\ released' = IF call.op = "release" /\ r.k = "ret" /\ r.st = AtcaSuccess
                       THEN [released EXCEPT ![c] = TRUE] ELSE released

Unborn == {c \in Ctx : dev[c].state = "unborn"}
Returned == {c \in Ctx : dev[c].state = "ready"}

Start(t, call, max) ==
    /\ th[t].pc = "idle"
    /\ calls < max
    /\ calls' = calls + 1
    /\ Continue(t, call, <<>>)
    /\ UNCHANGED <<ref_counter, api_mutex, access_keys, hw_session, chip, data_zone, rm_last,
                   frees, teardowns, opened, decoder>>

\* AteccDevice::new(r_iface_cfg): the object c is the next one never constructed.
New(t, devtype, ok, max) ==
    /\ Unborn # {}
    /\ LET c == CHOOSE x \in Unborn : \A y \in Unborn : x <= y IN
       Start(t, [op |-> "new", ctx |-> c, stale |-> FALSE,
                 cfg |-> [devtype |-> devtype, ok |-> ok]], max)

\* device.release() on a device new() has returned
Release(t, c) ==
    /\ c \in Returned
    /\ Start(t, [op |-> "release", ctx |-> c, stale |-> released[c]], MaxCalls)

\* device.random(..) on a device new() has returned
Random(t, c) ==
    /\ c \in Returned
    /\ Start(t, [op |-> "random", ctx |-> c, stale |-> released[c]], MaxCalls)

\* ATECC_RESOURCE_MANAGER.lock().unwrap().acquire() / .release(): one critical section
RmStep(t) ==
    /\ th[t].pc = "run"
    /\ NextEff(t).k = "rm"
    /\ LET e == NextEff(t)
           m == IF e.p = "acquire" THEN acquire(ref_counter) ELSE manager_release(ref_counter)
       IN  /\ ref_counter' = m.counter
           /\ rm_last' = [op |-> e.p, before |-> ref_counter, ret |-> m.ret,
                          after |-> m.counter]
           /\ Continue(t, th[t].call, Append(th[t].tr, [e |-> e, st |-> AtcaSuccess, v |-> m.ret]))
    /\ UNCHANGED <<api_mutex, access_keys, hw_session, chip, data_zone, calls, frees,
                   teardowns, opened, decoder>>

\* Box::from_raw(iface_cfg_raw_ptr) on the failing path of atcab_init
MemStep(t) ==
    /\ th[t].pc = "run"
    /\ NextEff(t).k = "mem"
    /\ frees' = [frees EXCEPT ![th[t].call.ctx] = @ + 1]
    /\ Continue(t, th[t].call, Append(th[t].tr, [e |-> NextEff(t), st |-> AtcaSuccess, v |-> 0]))
    /\ UNCHANGED <<ref_counter, api_mutex, access_keys, hw_session, chip, data_zone, calls, rm_last,
                   teardowns, opened, decoder>>

\* The caller takes the status (and the device or data) the call hands back.
Return(t) ==
    /\ th[t].pc = "done"
    /\ th' = [th EXCEPT ![t] = Idle]
    /\ UNCHANGED <<ref_counter, dev, api_mutex, access_keys, hw_session, chip, data_zone, calls,
                   rm_last, released, frees, teardowns, opened, decoder>>

\* A store whose insert keeps the key a slot already has.
KeyStoreKeepFirst(p, a, keys) ==
    IF p = "add" THEN
        [st |-> AtcaSuccess, v |-> 0,
         keys |-> [s \in DOMAIN keys \cup {a.slot} |->
                     IF s \in DOMAIN keys THEN keys[s] ELSE a.key]]
    ELSE IF p = "flush" THEN [st |-> AtcaSuccess, v |-> 0, keys |-> EmptyKeys]
    ELSE IF a \in DOMAIN keys THEN [st |-> AtcaSuccess, v |-> keys[a], keys |-> keys]
    ELSE [st |-> AtcaInvalidId, v |-> 0, keys |-> keys]

\* The access-key store after a critical section on it, and what the section
\* hands back: HashMap insert, clear and get.
KeyStore(p, a, keys) ==
    IF p = "add" THEN
        [st |-> AtcaSuccess, v |-> 0,
         keys |-> [s \in DOMAIN keys \cup {a.slot} |->
                     IF s = a.slot THEN a.key ELSE keys[s]]]
    ELSE IF p = "flush" THEN [st |-> AtcaSuccess, v |-> 0, keys |-> EmptyKeys]
    ELSE IF a \in DOMAIN keys THEN [st |-> AtcaSuccess, v |-> keys[a], keys |-> keys]
    ELSE [st |-> AtcaInvalidId, v |-> 0, keys |-> keys]

\* self.access_keys.lock() .. try_borrow_mut(): the guard is dropped on return
AkStep(t) ==
    /\ th[t].pc = "run"
    /\ NextEff(t).k = "ak"
    /\ LET e == NextEff(t)
           c == th[t].call.ctx
           r == KeyStore(e.p, e.a, access_keys[c])
       IN  /\ access_keys' = [access_keys EXCEPT ![c] = r.keys]
           /\ Continue(t, th[t].call, Append(th[t].tr, [e |-> e, st |-> r.st, v |-> r.v]))
    /\ UNCHANGED <<ref_counter, api_mutex, hw_session, chip, data_zone, calls, rm_last, frees,
                   teardowns, opened, decoder>>

\* A primitive called without waiting for the mutex.
no_lock(c) == TRUE

\* self.api_mutex.lock()
api_mutex_lock(c) == api_mutex[c] = 0

\* let _guard = self.api_mutex.lock(): the primitive starts with the mutex held
HwEnter(t) ==
    /\ th[t].pc = "run"
    /\ NextEff(t).k = "hw"
    /\ api_mutex_lock(th[t].call.ctx)
    /\ api_mutex' = [api_mutex EXCEPT ![th[t].call.ctx] = t]
    /\ th' = [th EXCEPT ![t].pc = "hw"]
    /\ UNCHANGED <<ref_counter, dev, access_keys, hw_session, chip, data_zone, calls, rm_last,
                   released, frees, teardowns, opened, decoder>>

\* A primitive that returns while the guard of api_mutex is kept.
HwExit_keeping_guard(t) ==
    /\ th[t].pc = "hw"
    /\ LET call == th[t].call
           c == call.ctx
           e == th[t].eff
       IN  \E st \in HwStatuses(e.p, hw_session) :
              /\ hw_session' = HwSession(e.p, e.a, st, c, hw_session)
              /\ data_zone' = HwData(e.p, e.a, st, data_zone)
              /\ api_mutex' = api_mutex
              /\ opened' = IF e.p = "atcab_init" /\ st = AtcaSuccess
                           THEN [opened EXCEPT ![c] = TRUE] ELSE opened
              /\ teardowns' = IF e.p = "atcab_release"
                              THEN [teardowns EXCEPT ![c] = @ + 1] ELSE teardowns
              /\ frees' = IF e.p = "atcab_release"
                          THEN [frees EXCEPT ![c] = @ + 1] ELSE frees
              /\ Continue(t, call,
                          Append(th[t].tr,
                                 [e |-> e, st |-> st,
                                  v |-> HwValue(e.p, e.a, st, hw_session, chip)]))
    /\ UNCHANGED <<ref_counter, access_keys, chip, calls, rm_last, decoder>>

\* The primitive returns and _guard is dropped.
HwExit(t) ==
    /\ th[t].pc = "hw"
    /\ LET call == th[t].call
           c == call.ctx
           e == th[t].eff
       IN  \E st \in HwStatuses(e.p, hw_session) :
              /\ hw_session' = HwSession(e.p, e.a, st, c, hw_session)
              /\ data_zone' = HwData(e.p, e.a, st, data_zone)
              /\ api_mutex' = [api_mutex EXCEPT ![c] = 0]
              /\ opened' = IF e.p = "atcab_init" /\ st = AtcaSuccess
                           THEN [opened EXCEPT ![c] = TRUE] ELSE opened
              /\ teardowns' = IF e.p = "atcab_release"
                              THEN [teardowns EXCEPT ![c] = @ + 1] ELSE teardowns
              /\ frees' = IF e.p = "atcab_release"
                          THEN [frees EXCEPT ![c] = @ + 1] ELSE frees
              /\ Continue(t, call,
                          Append(th[t].tr,
                                 [e |-> e, st |-> st,
                                  v |-> HwValue(e.p, e.a, st, hw_session, chip)]))
    /\ UNCHANGED <<ref_counter, access_keys, chip, calls, rm_last, decoder>>

\* A configuration buffer that was not decoded yet.
Undecoded(config_data) ==
    [config_data |-> config_data, atca_slots |-> <<>>, previous |-> <<>>, runs |-> 0]

InitCommon ==
    /\ ref_counter = 0
    /\ dev = [c \in Ctx |-> DefaultDevice]
    /\ api_mutex = [c \in Ctx |-> 0]
    /\ access_keys = [c \in Ctx |-> EmptyKeys]
    /\ hw_session = NoSession
    /\ data_zone = FactoryData
    /\ th = [t \in Threads |-> Idle]
    /\ calls = 0
    /\ rm_last = [op |-> "none", before |-> 0, ret |-> FALSE, after |-> 0]
    /\ released = [c \in Ctx |-> FALSE]
    /\ frees = [c \in Ctx |-> 0]
    /\ teardowns = [c \in Ctx |-> 0]
    /\ opened = [c \in Ctx |-> FALSE]

\* Life cycle and concurrency: threads construct, use and release devices.
Init ==
    /\ InitCommon
    /\ chip \in {ChipImage(1, TRUE, TRUE)}
    /\ decoder = Undecoded(<<>>)

Next ==
    \/ \E t \in Threads, ty \in DeviceTypes, ok \in BOOLEAN : New(t, ty, ok, MaxCalls)
    \/ \E t \in Threads, c \in Ctx : Release(t, c)
    \/ \E t \in Threads, c \in Ctx : Random(t, c)
    \/ \E t \in Threads : RmStep(t)
    \/ \E t \in Threads : MemStep(t)
    \/ \E t \in Threads : HwEnter(t)
    \/ \E t \in Threads : HwExit(t)
    \/ \E t \in Threads : Return(t)

Spec == Init /\ [][Next]_vars

----------------------------------------------------------------------------
\* The operations of one device: a single caller constructs it and calls its
\* operations one after another, for every chip and every argument below.

SlotIds == 0..(ATCA_ATECC_SLOTS_COUNT + 1)
KeyTypes == {"P256EccKey", "Aes", "ShaOrText", "Rfu"}
KeyLens == {ATCA_AES_KEY_SIZE, ATCA_ATECC_PRIV_KEY_SIZE, ATCA_ATECC_PUB_KEY_SIZE,
            ATCA_ATECC_PRIV_KEY_SIZE - 1}
NonceTargets == {"TempKey", "MsgDigBuf", "AltKeyBuf"}
AccessKeySlots == {2, 4, ATCA_ATECC_SLOTS_COUNT, ATCA_ATECC_SLOTS_COUNT + 1}
AccessKeys == {Buf(ATCA_KEY_SIZE, "k1"), Buf(ATCA_KEY_SIZE, "k2"),
               Buf(ATCA_AES_KEY_SIZE, "k1")}
SignModes == {[kind |-> "External", hash_len |-> ATCA_SHA2_256_DIGEST_SIZE],
              [kind |-> "External", hash_len |-> ATCA_SHA2_256_DIGEST_SIZE - 1],
              [kind |-> "Internal", hash_len |-> 0]}
VerifyModes ==
    {[kind |-> "Internal", slot |-> 0, key_len |-> 0, genuine |-> g] : g \in BOOLEAN}
    \cup {[kind |-> "External", slot |-> 0, key_len |-> ATCA_ATECC_PUB_KEY_SIZE,
            genuine |-> g] : g \in BOOLEAN}
    \cup {[kind |-> "Internal", slot |-> ATCA_ATECC_SLOTS_COUNT, key_len |-> 0,
            genuine |-> TRUE],
           [kind |-> "External", slot |-> 0, key_len |-> ATCA_ATECC_PUB_KEY_SIZE - 1,
            genuine |-> TRUE],
           [kind |-> "InternalMac", slot |-> 0, key_len |-> 0, genuine |-> TRUE]}
CipherAlgorithms == {"Ctr", "Cbc", "Xts"}
AeadAlgorithms == {"Ccm", "Gcm"}
EdgeSlots == {0, 3, ATCA_ATECC_SLOTS_COUNT - 1, ATCA_ATECC_SLOTS_COUNT}

OpCalls ==
    {[op |-> "random"], [op |-> "get_config"], [op |-> "flush_access_keys"],
     [op |-> "release"]}
    \cup {[op |-> "sha", len |-> n] : n \in {0, U16_MAX, U16_MAX + 1}}
    \cup {[op |-> "nonce", target |-> g, len |-> n] :
            g \in NonceTargets,
            n \in {ATCA_NONCE_NUMIN_SIZE, ATCA_NONCE_SIZE, 2 * ATCA_NONCE_SIZE}}
    \cup {[op |-> "nonce_rand", len |-> n] :
            n \in {ATCA_NONCE_NUMIN_SIZE, ATCA_NONCE_NUMIN_SIZE - 1}}
    \cup {[op |-> "gen_key", key_type |-> k, slot_id |-> s] : k \in KeyTypes, s \in SlotIds}
    \cup {[op |-> "import_key", key_type |-> k, key_data |-> Buf(n, "key"), slot_id |-> s] :
            k \in KeyTypes, n \in KeyLens, s \in SlotIds}
    \cup {[op |-> "export_key", key_type |-> k, len |-> ATCA_BLOCK_SIZE, slot_id |-> s] :
            k \in KeyTypes, s \in SlotIds}
    \cup {[op |-> "get_public_key", slot_id |-> s] : s \in SlotIds}
    \cup {[op |-> "sign_hash", mode |-> m, slot_id |-> s] : m \in SignModes, s \in EdgeSlots}
    \cup {[op |-> "verify_hash", mode |-> m, len |-> n, sig_len |-> g] :
            m \in VerifyModes,
            n \in {ATCA_SHA2_256_DIGEST_SIZE, ATCA_SHA2_256_DIGEST_SIZE - 1},
            g \in {ATCA_SIG_SIZE, ATCA_SIG_SIZE - 1}}
    \cup {[op |-> o, algorithm |-> g, slot_id |-> s] :
            o \in {"cipher_encrypt", "cipher_decrypt"}, g \in CipherAlgorithms,
            s \in {ATCA_ATECC_SLOTS_COUNT - 1}}
    \cup {[op |-> o, algorithm |-> g, slot_id |-> s] :
            o \in {"aead_encrypt", "aead_decrypt"}, g \in AeadAlgorithms,
            s \in {ATCA_ATECC_SLOTS_COUNT - 1}}
    \cup {[op |-> "info_cmd", command |-> m] : m \in {"Revision", "State", "KeyValid"}}
    \cup {[op |-> "add_access_key", slot_id |-> s, key_data |-> k] :
            s \in AccessKeySlots, k \in AccessKeys}
    \cup {[op |-> "get_access_key", slot_id |-> s] : s \in AccessKeySlots}

\* device.<operation>(..) on a device new() has returned
Op(t, c, o) ==
    /\ c \in Returned
    /\ Start(t, [ctx |-> c, stale |-> released[c]] @@ o, 1 + MaxOpsCalls)

ChipImages ==
    {ChipImage(aes, cl, dl) : aes \in {0, 1}, cl \in BOOLEAN, dl \in BOOLEAN}

InitOps ==
    /\ InitCommon
    /\ chip \in ChipImages
    /\ decoder = Undecoded(<<>>)

NextOps ==
    \/ \E ty \in DeviceTypes, ok \in BOOLEAN : New(1, ty, ok, 1 + MaxOpsCalls)
    \/ \E c \in Returned : th[1].pc = "idle" /\ \E o \in OpCalls : Op(1, c, o)
    \/ RmStep(1)
    \/ MemStep(1)
    \/ AkStep(1)
    \/ HwEnter(1)
    \/ HwExit(1)
    \/ Return(1)

SpecOps == InitOps /\ [][NextOps]_vars

----------------------------------------------------------------------------
\* One device shared by threads: the first thread constructs it, then every
\* thread calls operations on it concurrently.

SharedCalls ==
    {[op |-> "random"], [op |-> "flush_access_keys"], [op |-> "release"],
     [op |-> "gen_key", key_type |-> "Aes", slot_id |-> 3],
     [op |-> "nonce", target |-> "TempKey", len |-> ATCA_NONCE_SIZE],
     [op |-> "add_access_key", slot_id |-> 4, key_data |-> Buf(ATCA_KEY_SIZE, "k1")]}

SharedOp(t, c, o) ==
    /\ c \in Returned
    /\ Start(t, [ctx |-> c, stale |-> released[c]] @@ o, 1 + MaxSharedCalls)

InitShared ==
    /\ InitCommon
    /\ chip = ChipImage(1, TRUE, TRUE)
    /\ decoder = Undecoded(<<>>)

NextShared ==
    \/ \E ok \in BOOLEAN : New(1, "ATECC608A", ok, 1)
    \/ \E t \in Threads, c \in Returned, o \in SharedCalls : SharedOp(t, c, o)
    \/ \E t \in Threads : RmStep(t)
    \/ \E t \in Threads : MemStep(t)
    \/ \E t \in Threads : AkStep(t)
    \/ \E t \in Threads : HwEnter(t)
    \/ \E t \in Threads : HwExit(t)
    \/ \E t \in Threads : Return(t)

SpecShared == InitShared /\ [][NextShared]_vars

\* The shared device under a scheduler that lets some thread that can take a
\* step take one, and with hardware primitives that return.
SpecSharedFair ==
    /\ SpecShared
    /\ WF_vars(\E t \in Threads :
                  RmStep(t) \/ MemStep(t) \/ AkStep(t) \/ HwEnter(t) \/ HwExit(t))

----------------------------------------------------------------------------
\* Properties.

Done(t) == th[t].pc = "done"

\* A call of thread t has returned and its result is st.
DoneWith(t, op, st) == Done(t) /\ th[t].call.op = op /\ th[t].res.st = st

ReleaseInFlight(c) ==
    \E t \in Threads : th[t].pc # "idle" /\ th[t].call.op = "release" /\ th[t].call.ctx = c

\* new() has returned the device c, no release() of it has returned success and
\* none is in flight.
Live(c) == dev[c].state = "ready" /\ ~released[c] /\ ~ReleaseInFlight(c)

\* C1: at most one device context is live at a time: a new() called while a
\* context is live does not return a second one.
SingleLiveInstance == Cardinality({c \in Ctx : Live(c)}) <= 1

\* C2: acquire() returns true iff the counter was 0 and then sets it to 1,
\* release() returns true iff the counter was 1 and then resets it to 0, a call
\* that returns false leaves the counter unchanged, and the counter is 0 or 1.
ResourceManagerSemantics ==
    /\ ref_counter \in {0, 1}
    /\ rm_last.op = "acquire" =>
         /\ rm_last.ret <=> rm_last.before = 0
         /\ rm_last.after = IF rm_last.ret THEN 1 ELSE rm_last.before
    /\ rm_last.op = "release" =>
         /\ rm_last.ret <=> rm_last.before = 1
         /\ rm_last.after = IF rm_last.ret THEN 0 ELSE rm_last.before
    /\ rm_last.op # "none" => ref_counter = rm_last.after

\* An acquire() was refused while the counter was held, and the counter kept.
RefusedAcquire ==
    rm_last = [op |-> "acquire", before |-> 1, ret |-> FALSE, after |-> 1]

\* C3: a release() called on a context whose release() has already returned
\* success returns BadParam, invokes no hardware primitive (no second free of
\* the interface configuration, no session teardown), and no context's
\* interface configuration is freed twice.
DoubleReleaseRejected ==
    /\ \A t \in Threads :
         (Done(t) /\ th[t].call.op = "release" /\ th[t].call.stale)
         => (th[t].res.st = AtcaBadParam /\ th[t].res.hw = <<>>)
    /\ \A c \in Ctx : frees[c] <= 1

\* The call of thread t returns in this step.
Returns(t) == th[t].pc # "done" /\ th'[t].pc = "done"

\* The counter is held for another context: one under construction or in use.
HeldByAnother(c) ==
    \E x \in Ctx \ {c} : dev'[x].state \in {"initializing", "ready"} /\ ~released'[x]

\* C4: at the step in which new() returns a failure after it had acquired the
\* counter, no device is returned, the counter is back to 0 unless another
\* context holds it by then, and the session the call opened is torn down
\* exactly once: the teardown that ends the call closes that session and no
\* other.
InitFailureReleasesEverything ==
    [][\A t \in Threads :
         (Returns(t) /\ th'[t].call.op = "new"
          /\ th'[t].res.st \notin {AtcaSuccess, AtcaAllocFailure})
         => LET c == th'[t].call.ctx IN
            /\ dev'[c].state = "failed"
            /\ ref_counter' = 0 \/ HeldByAnother(c)
            /\ opened'[c] => /\ teardowns'[c] = 1
                             /\ hw_session.open => hw_session.owner = c]_vars

\* Operations of the device other than its construction and release.
IsOperation(call) == call.op \notin {"none", "new", "release"}

\* C5: an operation called on a context after its release() has returned
\* success fails and invokes no hardware primitive.
ReleasedIsTerminal ==
    \A t \in Threads :
      (Done(t) /\ IsOperation(th[t].call) /\ th[t].call.stale
       /\ th[t].call.op \notin {"add_access_key", "get_access_key", "flush_access_keys",
                                "get_config"})
      => (th[t].res.st # AtcaSuccess /\ th[t].res.hw = <<>>)

\* Every teardown so far was made by release() on a device new() had returned,
\* and no interface configuration was freed twice.
OnlyFirstReleases ==
    \A x \in Ctx : frees[x] <= 1 /\ (teardowns[x] > 0 => dev[x].state = "ready")

\* C6: when the only teardowns are those of first releases of returned devices,
\* every context that new() has returned and that is live still has its
\* hardware session open: no teardown came after its session open.
ConstructionDestructionSerialized ==
    OnlyFirstReleases
    => \A c \in Ctx : Live(c) => (hw_session.open /\ hw_session.owner = c)

\* C7: on a shared device context at most one hardware primitive is executing,
\* and it executes with the context's session mutex held by its thread.
SessionMutualExclusion ==
    /\ \A c \in Ctx :
         Cardinality({t \in Threads : th[t].pc = "hw" /\ th[t].call.ctx = c}) <= 1
    /\ \A t \in Threads : th[t].pc = "hw" => api_mutex[th[t].call.ctx] = t

\* A thread waits for the session mutex while another executes a primitive.
ContendedSession ==
    \E t, u \in Threads :
      /\ t # u
      /\ th[t].pc = "hw"
      /\ th[u].pc = "run" /\ th[u].eff.k = "hw"
      /\ th[u].call.ctx = th[t].call.ctx

\* C8: an operation on a device in use that returns an error decided by this
\* layer has invoked no hardware primitive during the call.
FailFast ==
    \A t \in Threads :
      (Done(t) /\ IsOperation(th[t].call) /\ ~th[t].call.stale
       /\ th[t].res.st \in LayerErrors)
      => th[t].res.hw = <<>>

ConfigGated == {"random", "sha", "gen_key"}
BothGated == {"import_key", "export_key", "sign_hash", "verify_hash", "cipher_encrypt",
              "cipher_decrypt", "aead_encrypt", "aead_decrypt"}

\* The chip zones an operation needs locked are not all locked.
Gated(op) ==
    \/ op \in ConfigGated /\ ~chip.config_locked
    \/ op \in BothGated /\ (~chip.config_locked \/ ~chip.data_locked)

\* C9: random, sha and gen_key with the configuration zone unlocked, and
\* import_key, export_key, sign_hash, verify_hash, cipher and aead operations
\* with the configuration or the data zone unlocked, return NotLocked whatever
\* their arguments and invoke no hardware primitive.
ZoneLockGating ==
    \A t \in Threads :
      (Done(t) /\ Gated(th[t].call.op))
      => (th[t].res.st = AtcaNotLocked /\ th[t].res.hw = <<>>)

\* import_key of a key of a wrong size into a slot that does not exist was
\* refused NotLocked on a chip whose data zone alone is unlocked.
GatedImport ==
    /\ chip.config_locked /\ ~chip.data_locked
    /\ \E t \in Threads :
         /\ DoneWith(t, "import_key", AtcaNotLocked)
         /\ th[t].call.slot_id > ATCA_ATECC_SLOTS_COUNT
         /\ th[t].call.key_data.len = ATCA_ATECC_PRIV_KEY_SIZE - 1

PassThroughOps == {"random", "sha", "nonce", "nonce_rand", "gen_key", "import_key",
                   "sign_hash", "verify_hash", "info_cmd"}

\* C10: an operation returns the status of every hardware primitive of its call
\* that did not succeed, and gen_key of an AES key returns Success only after a
\* key write to the slot that returned Success.
HardwareFailuresPassThrough ==
    \A t \in Threads :
      (Done(t) /\ th[t].call.op \in PassThroughOps)
      => /\ \A i \in DOMAIN th[t].res.hw :
              th[t].res.hw[i].st # AtcaSuccess => th[t].res.st = th[t].res.hw[i].st
         /\ (th[t].call.op = "gen_key" /\ th[t].call.key_type = "Aes"
             /\ th[t].res.st = AtcaSuccess)
            => \E i \in DOMAIN th[t].res.hw :
                 /\ th[t].res.hw[i].p \in {"atcab_write_zone", "atcab_write_enc"}
                 /\ th[t].res.hw[i].st = AtcaSuccess

\* C11: every operation on a Ready device returns a status for every argument,
\* every slot_id and every slot configuration: no call aborts.
NeverAborts ==
    \A t \in Threads :
        (Done(t) /\ IsOperation(th[t].call) /\ ~th[t].call.stale) => th[t].res.st # Panic

\* C12: no call changes the fields of a device new() has returned (serial
\* number, zone-lock flags, chip options, slot descriptors), and get_config
\* hands back the 16 captured descriptors, id i at index i.
CapturedConfigurationImmutable ==
    [][/\ \A c \in Ctx : dev[c].state = "ready" => dev'[c] = dev[c]
       /\ \A t \in Threads :
            (Returns(t) /\ th'[t].call.op = "get_config") =>
                /\ th'[t].res.st = AtcaSuccess
                /\ th'[t].res.out = dev[th'[t].call.ctx].slots
                /\ Len(Slots(dev[th'[t].call.ctx])) = ATCA_ATECC_SLOTS_COUNT
                /\ \A i \in 0..(ATCA_ATECC_SLOTS_COUNT - 1) :
                        Slots(dev[th'[t].call.ctx])[i + 1].id = i]_vars

ConfigAfterKeys ==
    \E t \in Threads :
        /\ DoneWith(t, "get_config", AtcaSuccess)
        /\ access_keys[th[t].call.ctx] # EmptyKeys
        /\ Slots(dev[th[t].call.ctx])[ATCA_ATECC_SLOTS_COUNT].id = ATCA_ATECC_SLOTS_COUNT - 1

\* The chip's AES bit disagrees with the family declared to new().
FamilyMismatch(call) == (chip.aes_bit = 1) # (call.cfg.devtype = "ATECC608A")

\* C13: new() fails, with the resource and the session released, when the probed
\* aes_enabled disagrees with the declared family; a device it returns has
\* aes_enabled exactly when its type is ATECC608A.
FamilyAesCrossCheck ==
    \A t \in Threads :
        (Done(t) /\ th[t].call.op = "new") =>
            /\ FamilyMismatch(th[t].call) => th[t].res.st # AtcaSuccess
            /\ th[t].res.st = AtcaSuccess =>
                    (dev[th[t].call.ctx].chip_options.aes_enabled
                        <=> th[t].call.cfg.devtype = "ATECC608A")
            /\ th[t].res.st = ConfigMismatch =>
                    /\ dev[th[t].call.ctx].state = "failed"
                    /\ ref_counter = 0
                    /\ ~hw_session.open
                    /\ teardowns[th[t].call.ctx] = 1

MismatchRejected ==
    \E t \in Threads :
        /\ DoneWith(t, "new", ConfigMismatch)
        /\ FamilyMismatch(th[t].call)
        /\ ref_counter = 0

\* A slot id the access-key store accepts: a slot of the table, or the reserved
\* slot on the family the session was opened for.
ValidKeySlot(slot_id) ==
    \/ slot_id < ATCA_ATECC_SLOTS_COUNT
    \/ (slot_id = ATCA_ATECC_SLOTS_COUNT /\ hw_session.devtype = "ATECC608A")

\* The store with key k in slot s and every other slot as it was.
WithKey(keys, s, k) == [x \in DOMAIN keys \cup {s} |-> IF x = s THEN k ELSE keys[x]]

\* C14: on a valid slot add_access_key with a 32-byte key stores exactly that
\* key, replacing the slot's key and leaving the other slots alone;
\* get_access_key hands back exactly the stored key and fails with InvalidId when
\* the slot has none; flush_access_keys empties the store.
AccessKeyRoundTrip ==
    [][\A t \in Threads :
        Returns(t) =>
            /\ (/\ th'[t].call.op = "add_access_key"
                /\ ValidKeySlot(th'[t].call.slot_id)
                /\ th'[t].call.key_data.len = ATCA_KEY_SIZE) =>
                    /\ th'[t].res.st = AtcaSuccess
                    /\ access_keys'[th'[t].call.ctx] =
                          WithKey(access_keys[th'[t].call.ctx], th'[t].call.slot_id,
                                  th'[t].call.key_data)
            /\ (th'[t].call.op = "get_access_key" /\ ValidKeySlot(th'[t].call.slot_id)) =>
                    /\ access_keys' = access_keys
                    /\ IF th'[t].call.slot_id \in DOMAIN access_keys[th'[t].call.ctx]
                       THEN /\ th'[t].res.st = AtcaSuccess
                            /\ th'[t].res.out =
                                  access_keys[th'[t].call.ctx][th'[t].call.slot_id]
                       ELSE th'[t].res.st = AtcaInvalidId
            /\ th'[t].call.op = "get_access_key" =>
                    (access_keys[th'[t].call.ctx] = EmptyKeys
                        => th'[t].res.st = AtcaInvalidId)
            /\ th'[t].call.op = "flush_access_keys" =>
                    /\ th'[t].res.st = AtcaSuccess
                    /\ access_keys'[th'[t].call.ctx] = EmptyKeys]_vars

KeyReadBack ==
    \E t \in Threads :
        /\ DoneWith(t, "get_access_key", AtcaSuccess)
        /\ th[t].res.out = Buf(ATCA_KEY_SIZE, "k2")
        /\ access_keys[th[t].call.ctx][th[t].call.slot_id] = Buf(ATCA_KEY_SIZE, "k2")

\* C15 as stated: add_access_key with a key that is not 32 bytes long returns
\* InvalidSize and leaves the store unchanged.
WrongSizeIsInvalidSize ==
    [][\A t \in Threads :
        (/\ Returns(t)
         /\ th'[t].call.op = "add_access_key"
         /\ th'[t].call.key_data.len # ATCA_KEY_SIZE) =>
            /\ th'[t].res.st = AtcaInvalidSize
            /\ access_keys' = access_keys]_vars

\* C15 amended: the slot is checked before the length.  With a key that is not
\* 32 bytes long add_access_key returns InvalidSize on a valid slot and InvalidId
\* on any other slot, and leaves the store unchanged in both cases.
WrongSizeAfterSlotCheck ==
    [][\A t \in Threads :
        (/\ Returns(t)
         /\ th'[t].call.op = "add_access_key"
         /\ th'[t].call.key_data.len # ATCA_KEY_SIZE) =>
            /\ th'[t].res.st = IF ValidKeySlot(th'[t].call.slot_id)
                               THEN AtcaInvalidSize ELSE AtcaInvalidId
            /\ access_keys' = access_keys]_vars

ShortKeyRefused ==
    \E t \in Threads :
        /\ DoneWith(t, "add_access_key", AtcaInvalidSize)
        /\ th[t].call.key_data.len # ATCA_KEY_SIZE
        /\ access_keys[th[t].call.ctx] # EmptyKeys

\* C16: add_access_key and get_access_key return InvalidId for a slot above 16
\* and for slot 16 on any family but ATECC608A; get_access_key returns InvalidId
\* on a slot without a key; the store only holds 32-byte keys for slots 0..16.
AccessKeySlotWindow ==
    /\ \A c \in Ctx : \A s \in DOMAIN access_keys[c] :
            /\ s \in 0..ATCA_ATECC_SLOTS_COUNT
            /\ access_keys[c][s].len = ATCA_KEY_SIZE
    /\ \A t \in Threads :
            (Done(t) /\ th[t].call.op \in {"add_access_key", "get_access_key"}) =>
                /\ ~ValidKeySlot(th[t].call.slot_id) => th[t].res.st = AtcaInvalidId
                /\ (/\ th[t].call.op = "get_access_key"
                    /\ th[t].call.slot_id \notin DOMAIN access_keys[th[t].call.ctx]) =>
                        th[t].res.st = AtcaInvalidId

ReservedSlotKey ==
    \E t \in Threads :
        /\ DoneWith(t, "add_access_key", AtcaSuccess)
        /\ th[t].call.slot_id = ATCA_ATECC_SLOTS_COUNT
        /\ ATCA_ATECC_SLOTS_COUNT \in DOMAIN access_keys[th[t].call.ctx]

\* The call of thread t invoked primitive p exactly once, and nothing else but
\* questions for the device type; it returned that invocation's status.
OnceWithStatus(t, p) ==
    /\ Cardinality({i \in DOMAIN th[t].res.hw : th[t].res.hw[i].p = p}) = 1
    /\ \A i \in DOMAIN th[t].res.hw :
            /\ th[t].res.hw[i].p \in {p, "atcab_get_device_type"}
            /\ th[t].res.hw[i].p = p => th[t].res.st = th[t].res.hw[i].st

\* The call of thread t never invoked primitive p.
NeverInvoked(t, p) == \A i \in DOMAIN th[t].res.hw : th[t].res.hw[i].p # p

\* C17: with the configuration zone locked, sha returns BadParam without a
\* hardware call for a message longer than 65535 bytes; otherwise atcab_sha is
\* invoked once with that length, the digest is 32 bytes long and the status is
\* the primitive's.
ShaContract ==
    \A t \in Threads :
        (Done(t) /\ th[t].call.op = "sha" /\ dev[th[t].call.ctx].config_zone_locked) =>
            IF th[t].call.len > U16_MAX
            THEN th[t].res.st = AtcaBadParam /\ th[t].res.hw = <<>>
            ELSE /\ OnceWithStatus(t, "atcab_sha")
                 /\ th[t].res.hw = <<[p |-> "atcab_sha", a |-> th[t].call.len,
                                      st |-> th[t].res.st]>>
                 /\ th[t].res.out = ATCA_SHA2_256_DIGEST_SIZE

ShaTooLong ==
    \E t \in Threads :
        /\ DoneWith(t, "sha", AtcaBadParam)
        /\ th[t].call.len = U16_MAX + 1
        /\ dev[th[t].call.ctx].config_zone_locked

\* The combinations of family, target and length the nonce load accepts.
NonceAccepted(family, target, len) ==
    IF family = "ATECC608A"
    THEN \/ (target \in {"TempKey", "MsgDigBuf"} /\ len \in {ATCA_NONCE_SIZE, 2 * ATCA_NONCE_SIZE})
         \/ (target = "AltKeyBuf" /\ len = ATCA_NONCE_SIZE)
    ELSE target = "TempKey" /\ len = ATCA_NONCE_SIZE

NonceTooSmallIsBadParam ==
    \A t \in Threads :
        (/\ Done(t)
         /\ th[t].call.op = "nonce"
         /\ ~th[t].call.stale
         /\ th[t].call.target = "TempKey"
         /\ th[t].call.len \notin {ATCA_NONCE_SIZE, 2 * ATCA_NONCE_SIZE}) =>
            th[t].res.st = AtcaBadParam

\* C20: nonce_rand returns InvalidSize, without a hardware call and with the
\* output buffer untouched, unless the host nonce is 20 bytes long; with 20
\* bytes atcab_nonce_rand is invoked once, the output is 32 bytes long and the
\* status is the primitive's, whatever the zone locks.
NonceRandContract ==
    \A t \in Threads :
        (Done(t) /\ th[t].call.op = "nonce_rand") =>
            IF th[t].call.len # ATCA_NONCE_NUMIN_SIZE
            THEN /\ th[t].res.st = AtcaInvalidSize
                 /\ th[t].res.hw = <<>>
                 /\ th[t].res.out = 0
            ELSE /\ OnceWithStatus(t, "atcab_nonce_rand")
                 /\ Len(th[t].res.hw) = 1
                 /\ th[t].res.out = ATCA_RANDOM_BUFFER_SIZE

NonceRandUnlocked ==
    \E t \in Threads :
        /\ DoneWith(t, "nonce_rand", AtcaSuccess)
        /\ ~chip.config_locked
        /\ ~chip.data_locked
        /\ th[t].res.out = ATCA_RANDOM_BUFFER_SIZE

\* The device the call of thread t is made on, as new() captured it.
Device(t) == dev[th[t].call.ctx]

\* C21: with the configuration zone locked and aes_enabled false, gen_key of
\* an AES key returns BadParam for every slot_id in 0..=16 and invokes no
\* hardware primitive.
AesKeyGenerationNeedsAes ==
    \A t \in Threads :
        (/\ Done(t)
         /\ th[t].call.op = "gen_key"
         /\ th[t].call.key_type = "Aes"
         /\ th[t].call.slot_id <= ATCA_ATECC_SLOTS_COUNT
         /\ Device(t).config_zone_locked
         /\ ~Device(t).chip_options.aes_enabled) =>
            th[t].res.st = AtcaBadParam /\ th[t].res.hw = <<>>

AesGenerationRefused ==
    \E t \in Threads :
        /\ DoneWith(t, "gen_key", AtcaBadParam)
        /\ th[t].call.key_type = "Aes"
        /\ th[t].call.slot_id = 2
        /\ Device(t).config_zone_locked
        /\ ~Device(t).chip_options.aes_enabled
        /\ Slot(Device(t), 2).config.key_type = "Aes"

\* Both zones of the device of thread t's call are locked.
ZonesLocked(t) == Device(t).config_zone_locked /\ Device(t).data_zone_locked

\* The call of thread t returned st and invoked no hardware primitive.
Refused(t, st) == th[t].res.st = st /\ th[t].res.hw = <<>>

\* C22: with the zones locked, gen_key and import_key return InvalidId for
\* slot_id > 16, BadParam for slot_id = 16 with a key type other than Aes and
\* BadParam for a slot below 16 whose configured key type is not the requested
\* one; gen_key of a P256 key on a slot that is not secret returns BadParam;
\* atcab_genkey is invoked, once, exactly when gen_key passes all these checks.
KeySetupValidation ==
    \A t \in Threads :
        (Done(t) /\ th[t].call.op \in {"gen_key", "import_key"} /\ ZonesLocked(t)) =>
            /\ th[t].call.slot_id > ATCA_ATECC_SLOTS_COUNT => Refused(t, AtcaInvalidId)
            /\ (th[t].call.slot_id = ATCA_ATECC_SLOTS_COUNT /\ th[t].call.key_type # "Aes")
                    => Refused(t, AtcaBadParam)
            /\ (/\ th[t].call.slot_id < ATCA_ATECC_SLOTS_COUNT
                /\ th[t].call.key_type # Slot(Device(t), th[t].call.slot_id).config.key_type)
                    => Refused(t, AtcaBadParam)
            /\ (/\ th[t].call.op = "gen_key"
                /\ th[t].call.key_type = "P256EccKey"
                /\ th[t].call.slot_id < ATCA_ATECC_SLOTS_COUNT
                /\ ~Slot(Device(t), th[t].call.slot_id).config.is_secret)
                    => Refused(t, AtcaBadParam)
            /\ IF /\ th[t].call.op = "gen_key"
                  /\ th[t].call.key_type = "P256EccKey"
                  /\ th[t].call.slot_id < ATCA_ATECC_SLOTS_COUNT
                  /\ Slot(Device(t), th[t].call.slot_id).config.key_type = "P256EccKey"
                  /\ Slot(Device(t), th[t].call.slot_id).config.is_secret
               THEN th[t].res.hw = <<[p |-> "atcab_genkey", a |-> th[t].call.slot_id,
                                      st |-> th[t].res.st]>>
               ELSE NeverInvoked(t, "atcab_genkey")

OpenSlotKeyRefused ==
    \E t \in Threads :
        /\ DoneWith(t, "gen_key", AtcaBadParam)
        /\ ZonesLocked(t)
        /\ th[t].call.key_type = "P256EccKey"
        /\ th[t].call.slot_id = 13
        /\ Slot(Device(t), 13).config.key_type = "P256EccKey"
        /\ ~Slot(Device(t), 13).config.is_secret

\* The writes to the data zone among the primitives of thread t's call.
Writes(t) ==
    {i \in DOMAIN th[t].res.hw :
        th[t].res.hw[i].p \in {"atcab_write_zone", "atcab_write_enc", "atcab_priv_write",
                               "atcab_write_pubkey", "atcab_nonce_load"}}

\* The route of an AES key block to slot_id, as the call of thread t took it:
\* by the slot's write_config, with the access key the store holds.
AesWriteRoute(t, slot_id) ==
    IF slot_id = ATCA_ATECC_SLOTS_COUNT
    THEN th[t].res.st = AtcaUnimplemented /\ Writes(t) = {}
    ELSE IF Slot(Device(t), slot_id).config.write_config = "Always"
    THEN /\ Cardinality(Writes(t)) = 1
         /\ \A i \in Writes(t) :
                /\ th[t].res.hw[i].p = "atcab_write_zone"
                /\ th[t].res.hw[i].a.zone = "ATCA_ZONE_DATA"
                /\ th[t].res.hw[i].a.slot = slot_id
                /\ th[t].res.hw[i].a.len = ATCA_BLOCK_SIZE
                /\ th[t].res.hw[i].a.data.len = ATCA_BLOCK_SIZE
                /\ th[t].res.st = th[t].res.hw[i].st
    ELSE IF Slot(Device(t), slot_id).config.write_config = "Encrypt"
    THEN IF Slot(Device(t), slot_id).config.write_key \in DOMAIN access_keys[th[t].call.ctx]
         THEN /\ Cardinality(Writes(t)) = 1
              /\ \A i \in Writes(t) :
                    /\ th[t].res.hw[i].p = "atcab_write_enc"
                    /\ th[t].res.hw[i].a.slot = slot_id
                    /\ th[t].res.hw[i].a.key_idx = Slot(Device(t), slot_id).config.write_key
                    /\ th[t].res.hw[i].a.key =
                          access_keys[th[t].call.ctx][th[t].res.hw[i].a.key_idx]
                    /\ th[t].res.st = th[t].res.hw[i].st
         ELSE th[t].res.st = AtcaInvalidId /\ Writes(t) = {}
    ELSE th[t].res.st = AtcaBadParam /\ Writes(t) = {}

\* Thread t's gen_key of an AES key has returned after passing the validation.
AesGenKeyValidated(t) ==
    /\ Done(t)
    /\ th[t].call.op = "gen_key"
    /\ th[t].call.key_type = "Aes"
    /\ ~check_that_configuration_is_not_locked(Device(t), FALSE)
    /\ encryption_key_setup_parameters_check(Device(t), "Aes", th[t].call.slot_id) = AtcaSuccess

AesImportMirrorsGenKey ==
    \A t \in Threads :
        (/\ Done(t)
         /\ th[t].call.op = "import_key"
         /\ th[t].call.key_type = "Aes"
         /\ th[t].call.key_data.len = ATCA_AES_KEY_SIZE
         /\ ZonesLocked(t)
         /\ encryption_key_setup_parameters_check(Device(t), "Aes", th[t].call.slot_id)
                = AtcaSuccess) =>
            AesWriteRoute(t, th[t].call.slot_id)

\* The key type and slot of thread t's call pass the key-setup validation.
KeySetupValid(t) ==
    /\ th[t].call.slot_id <= ATCA_ATECC_SLOTS_COUNT
    /\ th[t].call.slot_id = ATCA_ATECC_SLOTS_COUNT => th[t].call.key_type = "Aes"
    /\ th[t].call.key_type = "Aes" => Device(t).chip_options.aes_enabled
    /\ th[t].call.slot_id < ATCA_ATECC_SLOTS_COUNT =>
            th[t].call.key_type = Slot(Device(t), th[t].call.slot_id).config.key_type

\* C25: with the zones locked, import_key of an AES key that is not 16 bytes
\* long, or of a P256 key that is neither 32 nor 64 bytes long, returns
\* InvalidSize without a hardware call when slot and key type are valid, and the
\* InvalidId or BadParam of the slot and key-type check when they are not.
ImportKeySizeValidation ==
    \A t \in Threads :
        (/\ Done(t)
         /\ th[t].call.op = "import_key"
         /\ ZonesLocked(t)
         /\ \/ (th[t].call.key_type = "Aes" /\ th[t].call.key_data.len # ATCA_AES_KEY_SIZE)
            \/ (/\ th[t].call.key_type = "P256EccKey"
                /\ th[t].call.key_data.len
                      \notin {ATCA_ATECC_PRIV_KEY_SIZE, ATCA_ATECC_PUB_KEY_SIZE})) =>
            Refused(t, IF KeySetupValid(t) THEN AtcaInvalidSize
                       ELSE IF th[t].call.slot_id > ATCA_ATECC_SLOTS_COUNT THEN AtcaInvalidId
                       ELSE AtcaBadParam)

ShortPrivateKeyRefused ==
    \E t \in Threads :
        /\ DoneWith(t, "import_key", AtcaInvalidSize)
        /\ ZonesLocked(t)
        /\ th[t].call.key_type = "P256EccKey"
        /\ th[t].call.key_data.len = ATCA_ATECC_PRIV_KEY_SIZE - 1
        /\ KeySetupValid(t)

\* C26: with the zones locked and slot and key type valid, import_key of a
\* 64-byte public key returns InvalidId on a slot below
\* ATCA_ATECC_MIN_SLOT_IDX_FOR_PUB_KEY and is otherwise one atcab_write_pubkey;
\* a 32-byte private key returns BadParam when the slot's write_config is not
\* Encrypt, InvalidId when no access key is stored for the slot's write_key slot
\* (no hardware write in either case), and is otherwise one atcab_priv_write
\* with the access key stored for that slot.
EccImportRouting ==
    \A t \in Threads :
        (/\ Done(t)
         /\ th[t].call.op = "import_key"
         /\ th[t].call.key_type = "P256EccKey"
         /\ ZonesLocked(t)
         /\ KeySetupValid(t)) =>
            /\ th[t].call.key_data.len = ATCA_ATECC_PUB_KEY_SIZE =>
                IF th[t].call.slot_id < ATCA_ATECC_MIN_SLOT_IDX_FOR_PUB_KEY
                THEN Refused(t, AtcaInvalidId)
                ELSE th[t].res.hw =
                        <<[p |-> "atcab_write_pubkey",
                           a |-> [slot |-> th[t].call.slot_id, data |-> th[t].call.key_data],
                           st |-> th[t].res.st]>>
            /\ th[t].call.key_data.len = ATCA_ATECC_PRIV_KEY_SIZE =>
                IF Slot(Device(t), th[t].call.slot_id).config.write_config # "Encrypt"
                THEN Refused(t, AtcaBadParam)
                ELSE IF Slot(Device(t), th[t].call.slot_id).config.write_key
                            \notin DOMAIN access_keys[th[t].call.ctx]
                THEN Refused(t, AtcaInvalidId)
                ELSE /\ Len(th[t].res.hw) = 1
                     /\ th[t].res.hw[1].p = "atcab_priv_write"
                     /\ th[t].res.hw[1].st = th[t].res.st
                     /\ th[t].res.hw[1].a.slot = th[t].call.slot_id
                     /\ th[t].res.hw[1].a.key_idx =
                            Slot(Device(t), th[t].call.slot_id).config.write_key
                     /\ th[t].res.hw[1].a.key =
                            access_keys[th[t].call.ctx][th[t].res.hw[1].a.key_idx]
                     /\ th[t].res.hw[1].a.data.len = 4 + ATCA_ATECC_PRIV_KEY_SIZE

PrivateKeyWritten ==
    \E t \in Threads :
        /\ DoneWith(t, "import_key", AtcaSuccess)
        /\ ZonesLocked(t)
        /\ th[t].call.key_type = "P256EccKey"
        /\ th[t].call.key_data.len = ATCA_ATECC_PRIV_KEY_SIZE
        /\ Len(th[t].res.hw) = 1
        /\ th[t].res.hw[1].p = "atcab_priv_write"
        /\ th[t].res.hw[1].a.key = Buf(ATCA_KEY_SIZE, "k1")

\* C27: when import_key has written the 16-byte AES key k to a slot (the chip
\* holding what was written) and a following export_key of that slot returns
\* Success, the exported key is the 16 bytes k, on the encrypted read path and
\* on the plain zone read alike.
AesImportExportRoundTrip ==
    \A t \in Threads :
        (/\ DoneWith(t, "export_key", AtcaSuccess)
         /\ th[t].call.key_type = "Aes"
         /\ th[t].call.slot_id < ATCA_ATECC_SLOTS_COUNT
         /\ data_zone[th[t].call.slot_id] = "key") =>
            th[t].res.out = Buf(ATCA_AES_KEY_SIZE, "key")

AesKeyTransferNeedsAes ==
    \A t \in Threads :
        (/\ Done(t)
         /\ th[t].call.op \in {"export_key", "import_key"}
         /\ th[t].call.key_type = "Aes"
         /\ th[t].call.slot_id < ATCA_ATECC_SLOTS_COUNT
         /\ ZonesLocked(t)
         /\ ~Device(t).chip_options.aes_enabled) =>
            th[t].res.st = AtcaBadParam

\* The call of thread t is the one invocation of primitive p on its slot.
OnSlot(t, p) ==
    th[t].res.hw = <<[p |-> p, a |-> th[t].call.slot_id, st |-> th[t].res.st]>>

\* Thread t's get_public_key has returned, on a slot below 16 with the zones locked.
PublicKeyAsked(t) ==
    /\ Done(t)
    /\ th[t].call.op = "get_public_key"
    /\ th[t].call.slot_id < ATCA_ATECC_SLOTS_COUNT
    /\ ZonesLocked(t)

\* C30 as stated: a private-key slot (P256, is_secret, pub_info, is_private)
\* has its public key computed on chip; a P256 slot that is not secret and has
\* write_config Always is read directly; every other slot configuration gives
\* Unimplemented or BadParam without a hardware primitive.
PublicKeyDispatch ==
    \A t \in Threads :
        PublicKeyAsked(t) =>
            IF /\ Slot(Device(t), th[t].call.slot_id).config.key_type = "P256EccKey"
               /\ Slot(Device(t), th[t].call.slot_id).config.is_secret
               /\ Slot(Device(t), th[t].call.slot_id).config.pub_info
               /\ Slot(Device(t), th[t].call.slot_id).config.ecc_key_attr.is_private
            THEN OnSlot(t, "atcab_get_pubkey")
            ELSE IF /\ Slot(Device(t), th[t].call.slot_id).config.key_type = "P256EccKey"
                    /\ ~Slot(Device(t), th[t].call.slot_id).config.is_secret
                    /\ Slot(Device(t), th[t].call.slot_id).config.write_config = "Always"
            THEN OnSlot(t, "atcab_read_pubkey")
            ELSE Refused(t, AtcaUnimplemented) \/ Refused(t, AtcaBadParam)

\* C30, amended: as above, but a slot below
\* ATCA_ATECC_MIN_SLOT_IDX_FOR_PUB_KEY that would be read (directly, or with
\* encryption were that implemented) gives InvalidId without a hardware
\* primitive.
PublicKeyDispatchInWindow ==
    \A t \in Threads :
        PublicKeyAsked(t) =>
            IF /\ Slot(Device(t), th[t].call.slot_id).config.key_type = "P256EccKey"
               /\ Slot(Device(t), th[t].call.slot_id).config.is_secret
               /\ Slot(Device(t), th[t].call.slot_id).config.pub_info
               /\ Slot(Device(t), th[t].call.slot_id).config.ecc_key_attr.is_private
            THEN /\ OnSlot(t, "atcab_get_pubkey")
                 /\ th[t].res.out.len = ATCA_ATECC_PUB_KEY_SIZE
            ELSE IF /\ Slot(Device(t), th[t].call.slot_id).config.key_type = "P256EccKey"
                    /\ ~Slot(Device(t), th[t].call.slot_id).config.is_secret
                    /\ Slot(Device(t), th[t].call.slot_id).config.write_config = "Always"
            THEN IF th[t].call.slot_id < ATCA_ATECC_MIN_SLOT_IDX_FOR_PUB_KEY
                 THEN Refused(t, AtcaInvalidId)
                 ELSE /\ OnSlot(t, "atcab_read_pubkey")
                      /\ th[t].res.out.len = ATCA_ATECC_PUB_KEY_SIZE
            ELSE IF /\ Slot(Device(t), th[t].call.slot_id).config.key_type = "P256EccKey"
                    /\ Slot(Device(t), th[t].call.slot_id).config.is_secret
                    /\ Slot(Device(t), th[t].call.slot_id).config.read_key.encrypt_read
            THEN Refused(t, IF th[t].call.slot_id < ATCA_ATECC_MIN_SLOT_IDX_FOR_PUB_KEY
                            THEN AtcaInvalidId ELSE AtcaUnimplemented)
            ELSE Refused(t, AtcaBadParam)

LowPublicSlotRefused ==
    \E t \in Threads :
        /\ PublicKeyAsked(t)
        /\ th[t].call.slot_id = 5
        /\ ~Slot(Device(t), 5).config.is_secret
        /\ Slot(Device(t), 5).config.write_config = "Always"
        /\ Refused(t, AtcaInvalidId)


----------------------------------------------------------------------------
\* The configuration-zone decoder on its own: a caller hands a 128-byte buffer
\* to atcab_get_config_from_config_zone, as get_config_from_chip does with the
\* bytes read from the chip.

\* The buffers: the configuration zone of a chip and an all-zero buffer, each
\* with one byte overwritten.  The overwritten byte is a slot-config or
\* key-config byte of slot 0, 6, 7, 8 or 15, a lock-bitmap byte, or a byte the
\* decoder has no use for; its value takes every high nibble with the low nibble
\* clear and set, and every key-type pattern with the other bits clear and set.
ConfigBuffers ==
    {[b EXCEPT ![i] = v] :
        b \in {Bytes(ChipImage(1, TRUE, TRUE)),
               [i \in 0..(ATCA_ATECC_CONFIG_BUFFER_SIZE - 1) |-> 0]},
        i \in {20 + 2 * s + k : s \in {0, 6, 7, 8, 15}, k \in {0, 1}}
              \cup {96 + 2 * s + k : s \in {0, 6, 7, 8, 15}, k \in {0, 1}}
              \cup {88, 89} \cup {0, 19, 52, 87, 90, 95},
        v \in {16 * h + l : h \in 0..15, l \in {0, 15}}
              \cup {4 * k + o : k \in 0..7, o \in {0, 3, 227}}}

\* atca_slots.clear(); atcab_get_config_from_config_zone(&config_data, atca_slots)
Decode ==
    /\ decoder.runs < MaxDecodes
    /\ decoder' = [decoder EXCEPT
                     !.atca_slots = atcab_get_config_from_config_zone(decoder.config_data, <<>>),
                     !.previous = decoder.atca_slots,
                     !.runs = @ + 1]
    /\ UNCHANGED <<ref_counter, dev, api_mutex, access_keys, hw_session, chip, data_zone, th,
                   calls, rm_last, released, frees, teardowns, opened>>

InitDecoder ==
    /\ InitCommon
    /\ chip = NoImage
    /\ decoder \in {Undecoded(b) : b \in ConfigBuffers}

NextDecoder == Decode

SpecDecoder == InitDecoder /\ [][NextDecoder]_vars

----------------------------------------------------------------------------

----------------------------------------------------------------------------
\* C36: for every slot i in 0..15, is_locked is true if and only if bit
\* (i mod 8) of configuration byte 88 + (i div 8) is 0; byte 88 = 0b10111111 and
\* byte 89 = 0b01111111 give slot 0 unlocked, slot 6 locked and slot 15 locked.
SlotLockBitmap ==
    decoder.runs > 0 =>
        /\ \A i \in 0..(ATCA_ATECC_SLOTS_COUNT - 1) :
              decoder.atca_slots[i + 1].is_locked
                <=> (decoder.config_data[88 + (i \div 8)] \div Pow2(i % 8)) % 2 = 0
        /\ (decoder.config_data[88] = 191 /\ decoder.config_data[89] = 127) =>
              /\ ~decoder.atca_slots[1].is_locked
              /\ decoder.atca_slots[7].is_locked
              /\ decoder.atca_slots[16].is_locked

LockBitmapExample ==
    /\ decoder.runs > 0
    /\ decoder.config_data[88] = 191
    /\ decoder.config_data[89] = 127
    /\ ~decoder.atca_slots[1].is_locked
    /\ decoder.atca_slots[7].is_locked
    /\ decoder.atca_slots[16].is_locked

----------------------------------------------------------------------------
\* C37: the high nibble of the second slot-config byte (byte 21 + 2 * slot)
\* decides write_config: 0 is Always, 1 is PubInvalid, 2, 3, 8, 9, 10 and 11 are
\* Never, 4, 5, 6, 7, 12, 13, 14 and 15 are Encrypt; the low nibble of that byte
\* and every other byte have no influence.
WriteConfigDecoding ==
    decoder.runs > 0 =>
        \A s \in 0..(ATCA_ATECC_SLOTS_COUNT - 1) :
            decoder.atca_slots[s + 1].config.write_config =
                IF decoder.config_data[21 + 2 * s] \div 16 = 0 THEN "Always"
                ELSE IF decoder.config_data[21 + 2 * s] \div 16 = 1 THEN "PubInvalid"
                ELSE IF decoder.config_data[21 + 2 * s] \div 16 \in {2, 3, 8, 9, 10, 11}
                THEN "Never"
                ELSE "Encrypt"

HighNibbleNeverWithLowNibbleSet ==
    /\ decoder.runs > 0
    /\ decoder.config_data[21] = 16 * 9 + 15
    /\ decoder.atca_slots[1].config.write_config = "Never"
    /\ decoder.config_data[33] \div 16 = 2
    /\ decoder.atca_slots[7].config.write_config = "Never"

----------------------------------------------------------------------------
\* The buffer with every byte the decoder has no use for cleared.
DecodedBytes(config_data) ==
    [i \in DOMAIN config_data |->
        IF i \in (20..51) \cup (88..89) \cup (96..127) THEN config_data[i] ELSE 0]

\* C38: decoding a buffer of 128 bytes into an empty list yields exactly 16
\* slot descriptors with id i at index i; decoding the same bytes twice yields
\* identical descriptors; the result depends only on bytes 20..51, 88..89 and
\* 96..127; key_type comes from bits 2..4 of the first key-config byte, 4 being
\* P256EccKey, 6 Aes, 7 ShaOrText and every other value Rfu.
DecoderShape ==
    /\ decoder.runs > 0 =>
        /\ Len(decoder.atca_slots) = ATCA_ATECC_SLOTS_COUNT
        /\ \A i \in 0..(ATCA_ATECC_SLOTS_COUNT - 1) :
              /\ decoder.atca_slots[i + 1].id = i
              /\ decoder.atca_slots[i + 1].config.key_type =
                    IF (decoder.config_data[96 + 2 * i] \div 4) % 8 = 4 THEN "P256EccKey"
                    ELSE IF (decoder.config_data[96 + 2 * i] \div 4) % 8 = 6 THEN "Aes"
                    ELSE IF (decoder.config_data[96 + 2 * i] \div 4) % 8 = 7 THEN "ShaOrText"
                    ELSE "Rfu"
        /\ decoder.atca_slots =
              atcab_get_config_from_config_zone(DecodedBytes(decoder.config_data), <<>>)
    /\ decoder.runs > 1 => decoder.atca_slots = decoder.previous

DecodedTwiceWithUnusedByteSet ==
    /\ decoder.runs = 2
    /\ decoder.config_data[90] = 255
    /\ decoder.config_data[98] = 24
    /\ decoder.atca_slots[2].config.key_type = "Aes"
    /\ decoder.atca_slots = decoder.previous

\* C31: get_public_key returns NotLocked if and only if the configuration zone
\* is unlocked; with the configuration zone locked the data-zone lock flag has
\* no influence on its result.
PublicKeyLockGate ==
    \A t \in Threads :
        (/\ Done(t)
         /\ th[t].call.op = "get_public_key"
         /\ th[t].call.slot_id < ATCA_ATECC_SLOTS_COUNT)
        => (th[t].res.st = AtcaNotLocked <=> ~Device(t).config_zone_locked)


----------------------------------------------------------------------------
\* A sign_hash or verify_hash call that returned on a device with both zones
\* locked, with a 32-byte hash and (for verify_hash) a 64-byte signature.
SizedCall(t, op) ==
    /\ Done(t)
    /\ th[t].call.op = op
    /\ ZonesLocked(t)
    /\ op = "sign_hash" =>
            \/ th[t].call.mode.kind # "External"
            \/ th[t].call.mode.hash_len = ATCA_SHA2_256_DIGEST_SIZE
    /\ op = "verify_hash" =>
            /\ th[t].call.len = ATCA_SHA2_256_DIGEST_SIZE
            /\ th[t].call.sig_len = ATCA_SIG_SIZE

\* C32: with both zones locked and valid sizes, sign_hash returns InvalidId for
\* slot_id >= 16, invokes the hardware sign only for SignMode::External and
\* returns Unimplemented for every other mode; verify_hash invokes the hardware
\* only for VerifyMode::Internal with a slot below 16 and VerifyMode::External
\* with a 64-byte public key, returns InvalidId for the other slots and key
\* lengths and Unimplemented for every other mode.
SupportedSignVerifyModes ==
    \A t \in Threads :
        /\ SizedCall(t, "sign_hash") =>
              IF th[t].call.slot_id >= ATCA_ATECC_SLOTS_COUNT THEN Refused(t, AtcaInvalidId)
              ELSE IF th[t].call.mode.kind = "External" THEN OnceWithStatus(t, "atcab_sign")
              ELSE Refused(t, AtcaUnimplemented)
        /\ SizedCall(t, "verify_hash") =>
              IF th[t].call.mode.kind = "Internal" THEN
                  (IF th[t].call.mode.slot < ATCA_ATECC_SLOTS_COUNT
                   THEN OnceWithStatus(t, "atcab_verify_stored")
                   ELSE Refused(t, AtcaInvalidId))
              ELSE IF th[t].call.mode.kind = "External" THEN
                  (IF th[t].call.mode.key_len = ATCA_ATECC_PUB_KEY_SIZE
                   THEN OnceWithStatus(t, "atcab_verify_extern")
                   ELSE Refused(t, AtcaInvalidId))
              ELSE Refused(t, AtcaUnimplemented)

InternalSignUnimplemented ==
    \E t \in Threads :
        /\ SizedCall(t, "sign_hash")
        /\ th[t].call.slot_id < ATCA_ATECC_SLOTS_COUNT
        /\ th[t].call.mode.kind = "Internal"
        /\ Refused(t, AtcaUnimplemented)


----------------------------------------------------------------------------
\* C33: sign_hash in external mode with a hash whose length is not 32 bytes
\* returns InvalidSize without invoking the hardware sign primitive, and a
\* successful sign_hash leaves a signature of exactly ATCA_SIG_SIZE bytes.
ExternalSignHashSize ==
    \A t \in Threads :
        (Done(t) /\ th[t].call.op = "sign_hash") =>
            /\ (/\ ZonesLocked(t)
                /\ th[t].call.slot_id < ATCA_ATECC_SLOTS_COUNT
                /\ th[t].call.mode.kind = "External"
                /\ th[t].call.mode.hash_len # ATCA_SHA2_256_DIGEST_SIZE)
               => Refused(t, AtcaInvalidSize)
            /\ th[t].res.st = AtcaSuccess => th[t].res.out = ATCA_SIG_SIZE


----------------------------------------------------------------------------
\* C34: with both zones locked, verify_hash with a signature that is not
\* ATCA_SIG_SIZE bytes or a hash that is not 32 bytes returns InvalidSize before
\* any hardware call, whatever the mode; with valid sizes, when the hardware
\* verify returns Success the result is Ok(b) with b the verdict of the
\* hardware, and a failure status of the hardware is returned as Err.
VerifyHashSizesAndVerdict ==
    \A t \in Threads :
        (Done(t) /\ th[t].call.op = "verify_hash" /\ ZonesLocked(t)) =>
            IF \/ th[t].call.sig_len # ATCA_SIG_SIZE
               \/ th[t].call.len # ATCA_SHA2_256_DIGEST_SIZE
            THEN Refused(t, AtcaInvalidSize)
            ELSE \A i \in DOMAIN th[t].res.hw :
                    th[t].res.hw[i].p \in {"atcab_verify_stored", "atcab_verify_extern"} =>
                        /\ th[t].res.st = th[t].res.hw[i].st
                        /\ th[t].res.st = AtcaSuccess =>
                                th[t].res.out = th[t].res.hw[i].a.genuine

ForgedSignatureReported ==
    \E t \in Threads :
        /\ Done(t)
        /\ th[t].call.op = "verify_hash"
        /\ ZonesLocked(t)
        /\ th[t].res.st = AtcaSuccess
        /\ th[t].res.out = FALSE
        /\ \E i \in DOMAIN th[t].res.hw :
                /\ th[t].res.hw[i].p \in {"atcab_verify_stored", "atcab_verify_extern"}
                /\ ~th[t].res.hw[i].a.genuine


----------------------------------------------------------------------------
\* C35: cipher_encrypt, cipher_decrypt, aead_encrypt and aead_decrypt return
\* BadParam without reaching a per-mode handler or a hardware primitive whenever
\* both zones are locked and aes_enabled is false, whatever the algorithm and
\* the slot; a per-mode handler is reached only with both zones locked and
\* aes_enabled true.
CipherNeedsAes ==
    \A t \in Threads :
        (/\ Done(t)
         /\ th[t].call.op \in {"cipher_encrypt", "cipher_decrypt",
                               "aead_encrypt", "aead_decrypt"})
        => /\ (ZonesLocked(t) /\ ~Device(t).chip_options.aes_enabled)
                => Refused(t, AtcaBadParam)
           /\ th[t].res.hw # <<>>
                => (ZonesLocked(t) /\ Device(t).chip_options.aes_enabled)

CipherRefusedWithoutAes ==
    \E t \in Threads :
        /\ Done(t)
        /\ th[t].call.op \in {"cipher_encrypt", "cipher_decrypt"}
        /\ th[t].call.algorithm \in CipherHandlers
        /\ ZonesLocked(t)
        /\ ~Device(t).chip_options.aes_enabled
        /\ Refused(t, AtcaBadParam)


----------------------------------------------------------------------------

----------------------------------------------------------------------------
\* C39: no thread holds two of the three locks at once: the resource manager
\* and the key store are locked for one step only, which a thread never takes
\* while it holds a session mutex, a thread holds the session mutex of one
\* device only and only inside a hardware primitive, and the key of an encrypted
\* transaction is looked up before the session mutex is taken; so, hardware
\* primitives returning, every operation call of every thread eventually returns.
LockDiscipline ==
    /\ [](\A c \in Ctx :
            api_mutex[c] # 0 =>
                /\ th[api_mutex[c]].pc = "hw"
                /\ th[api_mutex[c]].eff.k = "hw"
                /\ th[api_mutex[c]].call.ctx = c)
    /\ \A t \in Threads : (th[t].pc \in {"run", "hw"}) ~> (th[t].pc = "done")

WaitingWithKeyLookedUp ==
    \E t \in Threads, u \in Threads :
        /\ t # u
        /\ th[t].pc = "run"
        /\ th[t].eff.p = "atcab_write_enc"
        /\ th[t].call.ctx = th[u].call.ctx
        /\ api_mutex[th[t].call.ctx] = u

\* C40: in any interleaving of threads sharing one device, once
\* flush_access_keys has returned, no encrypted read, encrypted write or
\* authenticated private-key write is issued with an access key that the flush
\* removed: the key a thread issues such a transaction with is the key the
\* store holds for that slot at that moment.
FlushedKeysNotUsed ==
    [][\A t \in Threads :
          (/\ th[t].pc = "run"
           /\ th'[t].pc = "hw"
           /\ th[t].eff.p \in {"atcab_read_enc", "atcab_write_enc", "atcab_priv_write"})
          => /\ th[t].eff.a.key_idx \in DOMAIN access_keys[th[t].call.ctx]
             /\ access_keys[th[t].call.ctx][th[t].eff.a.key_idx] = th[t].eff.a.key]_vars

====
